---- MODULE Spec2Model ----
(***************************************************************************)
(* A model of the hump-yard file monitoring daemon: the rule store         *)
(* (ConfigReader.get_folder_config), the event dispatcher                  *)
(* (FileEventHandler.on_created, FileMonitorDaemon.process_file) and the   *)
(* process supervisor of the command line (cmd_start, cmd_stop,            *)
(* cmd_status, _run_daemon) with its PID file.                             *)
(*                                                                         *)
(* Three specifications share the definitions below:                       *)
(*   SpecMatch   get_folder_config applied to bounded rule sets and paths  *)
(*   SpecDaemon  one daemon instance: start-up, watchers, dispatch, signal *)
(*   SpecSup     concurrent commands, daemon processes and the PID file    *)
(*   SpecReg     the PluginManager: registration and the two discoveries   *)
(*   SpecSeq     the script start, status, stop, status                    *)
(*   SpecOne     one command run from every state of the supervisor        *)
(***************************************************************************)
EXTENDS Integers, Sequences, FiniteSets, TLC

VARIABLES
    qFolders,     \* SpecMatch: the rule set (ConfigReader.folders) under test
    qFile,        \* SpecMatch: the file path handed to get_folder_config
    qResult,      \* SpecMatch: index of the returned rule, 0 = None, -1 = not called
    platform,     \* sys.platform: "posix" or "win32"
    pidFile,      \* content of the PID file, 0 = the file does not exist
    configExists, \* the configuration file exists on disk
    config,       \* the rules written in the configuration file
    proc,         \* per pid: the process running _run_daemon (pc, pending signals, exit)
    folders,      \* per pid: config_reader.folders of its FileMonitorDaemon
    plugins,      \* per pid: plugin_manager.plugins (the registered names)
    observers,    \* per pid: FileMonitorDaemon.observers, one watcher thread each
    nCreated,     \* number of filesystem creations so far
    cmd,          \* per terminal: the cmd_start / cmd_stop / cmd_status it runs
    nInvoked,     \* number of commands the operator has run so far
    regPlugins,   \* SpecReg: PluginManager.plugins, per name the registered class
    regCall,      \* SpecReg: the last call on the PluginManager and its outcome
    hist,         \* SpecSeq: the commands of the script that have returned
    cfgEntries,   \* SpecLoad: the "folders" list of the configuration file
    cfgResult,    \* SpecLoad: what _parse_config left behind
    cfgHanded     \* SpecLoad: the configuration handed to plugin.process

qVars == <<qFolders, qFile, qResult>>
envVars == <<platform, configExists, config>>
daemonVars == <<folders, plugins, observers>>
regVars == <<regPlugins, regCall>>
cfgVars == <<cfgEntries, cfgResult, cfgHanded>>

vars == <<qFolders, qFile, qResult, platform, pidFile, configExists, config,
          proc, folders, plugins, observers, nCreated, cmd, nInvoked,
          regPlugins, regCall, hist, cfgEntries, cfgResult, cfgHanded>>

(***************************************************************************)
(* Bounds of the model.                                                    *)
(***************************************************************************)
MaxRules == 2       \* longest rule set drawn for get_folder_config
MaxDepth == 2       \* most directory components of a raw file path
MaxPid == 2         \* process ids the operating system hands out
MaxEvents == 2      \* filesystem creations in one run of SpecDaemon
MaxCmds == 2        \* commands the operator runs in one run of SpecSup
MaxModules == 2     \* most modules of the package given to discover_plugins
MaxEntries == 2     \* most entry points of the group file_monitor.plugins

(***************************************************************************)
(* Paths.  A path is the sequence of its components below the root.        *)
(* ".." is the parent link that Path.resolve() removes; "loop" is a        *)
(* component on which Path.resolve() raises (a symlink loop).              *)
(***************************************************************************)
DirNames == {"watch", "sub", ".."}

FileNames == {"a.jpg", "a.JPG", "a.png"}

DirParts == UNION {[1..n -> DirNames] : n \in 0..MaxDepth}

FilePaths == {d \o <<f>> : d \in DirParts, f \in FileNames}

RECURSIVE resolve_from(_, _)
resolve_from(acc, rest) ==
    IF rest = <<>> THEN acc
    ELSE IF Head(rest) = ".."
         THEN resolve_from(IF acc = <<>> THEN <<>>
                           ELSE SubSeq(acc, 1, Len(acc) - 1), Tail(rest))
         ELSE resolve_from(Append(acc, Head(rest)), Tail(rest))

\* Path.resolve(): the canonical form, parent links folded away.
resolve(path) == resolve_from(<<>>, path)

\* Path.resolve() raises on this path.
resolve_raises(path) == \E i \in 1..Len(path) : path[i] = "loop"

\* PurePath.suffix: the extension of the final component, "" when it has none.
suffix(path) ==
    IF path = <<>> THEN ""
    ELSE LET name == path[Len(path)] IN
         CASE name = "a.jpg" -> ".jpg"
           [] name = "a.JPG" -> ".JPG"
           [] name = "a.png" -> ".png"
           [] name = "a.PNG" -> ".PNG"
           [] OTHER -> ""

\* str.lower() on the extension strings of the model.
lower(s) ==
    CASE s = ".JPG" -> ".jpg"
      [] s = ".PNG" -> ".png"
      [] OTHER -> s

\* PurePath.is_relative_to: folder's components are a leading part of fp's.
RECURSIVE is_relative_to(_, _)
is_relative_to(fp, folder) ==
    IF folder = <<>> THEN TRUE
    ELSE IF fp = <<>> THEN FALSE
    ELSE Head(fp) = Head(folder) /\ is_relative_to(Tail(fp), Tail(folder))

(***************************************************************************)
(* FolderConfig and ConfigReader.get_folder_config.                        *)
(***************************************************************************)
RulePaths == { <<"watch">>, <<"watch", "sub">>, <<"watch", "sub", "..">>,
               <<"watch", "a.jpg">>, <<"loop">> }

RuleExtensions == { <<>>, <<".JPG">>, <<".png", ".jpg">> }

Rules == [path : RulePaths, recursive : BOOLEAN,
          extensions : RuleExtensions, plugin : {"noop"}]

RuleSets == UNION {[1..n -> Rules] : n \in 0..MaxRules}

\* The same test comparing the strings as they are written.
should_process_file_exact(fc, file_path) ==
    IF fc.extensions = <<>> THEN TRUE
    ELSE LET file_ext == suffix(file_path) IN
         \E i \in 1..Len(fc.extensions) : file_ext = fc.extensions[i]

\* FolderConfig.should_process_file
should_process_file(fc, file_path) ==
    IF fc.extensions = <<>> THEN TRUE
    ELSE LET file_ext == lower(suffix(file_path)) IN
         \E i \in 1..Len(fc.extensions) : file_ext = lower(fc.extensions[i])

\* The body of the loop of get_folder_config for one rule: TRUE when the
\* rule is returned; an exception while resolving skips the rule.
folder_matches(fc, file_path_obj) ==
    /\ ~resolve_raises(fc.path)
    /\ is_relative_to(file_path_obj, resolve(fc.path))
    /\ should_process_file(fc, file_path_obj)

RECURSIVE scan_folders(_, _, _)
scan_folders(flds, i, file_path_obj) ==
    IF i > Len(flds) THEN 0
    ELSE IF folder_matches(flds[i], file_path_obj) THEN i
    ELSE scan_folders(flds, i + 1, file_path_obj)

\* The same loop returning the last rule that matches (first-match broken).
RECURSIVE scan_folders_last(_, _, _)
scan_folders_last(flds, i, file_path_obj) ==
    IF i > Len(flds) THEN 0
    ELSE LET later == scan_folders_last(flds, i + 1, file_path_obj) IN
         IF later # 0 THEN later
         ELSE IF folder_matches(flds[i], file_path_obj) THEN i ELSE 0

\* get_folder_config with the tie-break reversed: the last declared match.
get_folder_config_last(flds, file_path) ==
    scan_folders_last(flds, 1, resolve(file_path))

\* ConfigReader.get_folder_config: index of the first matching rule, 0 = None.
get_folder_config(flds, file_path) ==
    scan_folders(flds, 1, resolve(file_path))

(***************************************************************************)
(* Processes and commands.                                                 *)
(***************************************************************************)
Pids == 1..MaxPid

\* the operator's terminals: each runs one command at a time
CmdIds == {1, 2}

\* pc: "none" (pid unused), "boot" (entering _run_daemon), "written",
\* "installed", "constructed", "running", "exited"; "foreign" is a process
\* of another user that is not a daemon and that the caller may not signal.
\* "other" is a process of the same user that is not a daemon either: it
\* has been given the pid of a daemon that died.
\* sig: the signals delivered to the process and not yet acted on.
\* exit: the exit status, -1 while the process has not exited.
NoProc == [pc |-> "none", sig |-> {}, exit |-> -1]

\* kind: "start", "stop", "status" or "restart"; fg: --foreground; pc: where the command
\* is; pid: its local variable pid; i: liveness polls done by cmd_stop;
\* child: the process it launched; exit: its exit code, -1 while it runs.
\* Kept for the properties: sent (the signals it delivered, in order),
\* removed (why it removed the PID file), lastProbe (the last answer of
\* is_process_running), rmAlive (the target was alive when it removed the
\* file), base (the live daemon named by the PID file when it was invoked).
NoCmd == [kind |-> "none", fg |-> FALSE, pc |-> "none", pid |-> 0, i |-> 0,
          child |-> 0, exit |-> -1, sent |-> <<>>, removed |-> "no",
          lastProbe |-> "", rmAlive |-> FALSE, base |-> 0]

\* the process exists and has not exited
Alive(p) == proc[p].pc \notin {"none", "exited"}

\* cmd_stop line 226: range(10), the liveness polls before the forced kill
StopPolls == 10

(***************************************************************************)
(* The plugin registry: PluginManager.                                     *)
(***************************************************************************)
\* the names plugin classes give themselves
PluginNames == {"noop", "exif", "rename"}

\* plugin classes: cls identifies the class, name is the name property of
\* its instances, init tells whether plugin_class() returns or raises (an
\* abstract intermediate class, a constructor that fails)
PluginClasses == {
    [cls |-> 1, name |-> "noop", init |-> "ok"],
    [cls |-> 2, name |-> "exif", init |-> "ok"],
    [cls |-> 3, name |-> "noop", init |-> "ok"],
    [cls |-> 4, name |-> "rename", init |-> "raise"] }

NoClass == [cls |-> 0, name |-> "", init |-> "ok"]

\* PluginManager.__init__: self.plugins = {}; 0 stands for an absent key
NoPlugins == [n \in PluginNames |-> 0]

\* the result of one register_plugin: the dict afterwards and what it raised
Outcome(plugs, raised) == [plugins |-> plugs, raised |-> raised]

\* register_plugin writing self.plugins[name] without the test of line 114
register_plugin_overwrite(plugs, plugin_class) ==
    IF plugin_class.init = "raise" THEN Outcome(plugs, "init")
    ELSE Outcome([plugs EXCEPT ![plugin_class.name] = plugin_class.cls], "")

\* PluginManager.register_plugin: the class is instantiated, a name already
\* in the dict raises ValueError, else the instance is stored under its name
register_plugin(plugs, plugin_class) ==
    IF plugin_class.init = "raise" THEN Outcome(plugs, "init")
    ELSE IF plugs[plugin_class.name] # 0 THEN Outcome(plugs, "ValueError")
    ELSE Outcome([plugs EXCEPT ![plugin_class.name] = plugin_class.cls], "")

\* modules of a plugin package: import tells whether import_module returns
\* or raises; classes are its FileProcessorPlugin subclasses in dir() order
PluginModules == {
    [import |-> "raise", classes |-> <<>>],
    [import |-> "ok", classes |-> << [cls |-> 2, name |-> "exif", init |-> "ok"] >>],
    [import |-> "ok", classes |-> << [cls |-> 1, name |-> "noop", init |-> "ok"],
                                     [cls |-> 2, name |-> "exif", init |-> "ok"] >>],
    [import |-> "ok", classes |-> << [cls |-> 4, name |-> "rename", init |-> "raise"],
                                     [cls |-> 2, name |-> "exif", init |-> "ok"] >>],
    [import |-> "ok", classes |-> << [cls |-> 1, name |-> "noop", init |-> "ok"],
                                     [cls |-> 3, name |-> "noop", init |-> "ok"],
                                     [cls |-> 2, name |-> "exif", init |-> "ok"] >>] }

\* packages handed to discover_plugins: import_module(package_name) raises
\* ImportError, or the package holds these modules in iter_modules order
Packages ==
    {[import |-> "raise", modules |-> <<>>]} \cup
    {[import |-> "ok", modules |-> ms] :
        ms \in UNION {[1..n -> PluginModules] : n \in 0..MaxModules}}

NoPackage == [import |-> "ok", modules |-> <<>>]

\* entry points: load tells whether entry_point.load() returns the class or
\* raises
EntryPoints ==
    {[load |-> "ok", class |-> c] : c \in PluginClasses} \cup
    {[load |-> "raise", class |-> NoClass]}

EntryGroups == UNION {[1..n -> EntryPoints] : n \in 0..MaxEntries}

\* _load_plugins_from_module lines 151-158: the loop over the classes of the
\* module; it runs inside the try of line 148, so the first register_plugin
\* that raises ends the loop
RECURSIVE load_classes(_, _)
load_classes(plugs, classes) ==
    IF classes = <<>> THEN plugs
    ELSE LET r == register_plugin(plugs, Head(classes)) IN
         IF r.raised # "" THEN r.plugins
         ELSE load_classes(r.plugins, Tail(classes))

\* PluginManager._load_plugins_from_module
load_plugins_from_module(plugs, module) ==
    IF module.import = "raise" THEN plugs
    ELSE load_classes(plugs, module.classes)

\* discover_plugins lines 131-136: one _load_plugins_from_module per module
RECURSIVE load_modules(_, _)
load_modules(plugs, modules) ==
    IF modules = <<>> THEN plugs
    ELSE load_modules(load_plugins_from_module(plugs, Head(modules)),
                      Tail(modules))

\* PluginManager.discover_plugins
discover_plugins(plugs, package) ==
    IF package.import = "raise" THEN plugs
    ELSE load_modules(plugs, package.modules)

\* PluginManager.discover_external_plugins: load and register each entry
\* point inside its own try
RECURSIVE discover_external_plugins(_, _)
discover_external_plugins(plugs, entries) ==
    IF entries = <<>> THEN plugs
    ELSE LET e == Head(entries)
             after == IF e.load = "raise" THEN plugs
                      ELSE register_plugin(plugs, e.class).plugins
         IN discover_external_plugins(after, Tail(entries))

\* no call has been made on the PluginManager yet
NoCall == [op |-> "none", class |-> NoClass, package |-> NoPackage,
           entries |-> <<>>, before |-> NoPlugins, raised |-> ""]

(***************************************************************************)
(* Configuration loading: ConfigReader._parse_config on the "folders" list of a         *)
(* configuration file, and the configuration process_file hands to the     *)
(* plugin.  An entry is a JSON object: `has` is the set of its keys, the   *)
(* other fields are the values of the keys it has (a fixed filler for a    *)
(* key it does not have).                                                  *)
(***************************************************************************)
MaxFolders == 2     \* most entries of the "folders" list

PlaceholderPath == "/absolute/path/to/folder"

NoEntry == [has |-> {}, path |-> "", plugin |-> "", recursive |-> FALSE,
            extensions |-> <<>>, comment |-> "", quality |-> ""]

ConfigEntries ==
    { [NoEntry EXCEPT !.has = {"path", "plugin", "recursive", "extensions",
                               "quality"},
                      !.path = "/watch", !.plugin = "noop",
                      !.recursive = TRUE, !.extensions = <<".png">>,
                      !.quality = "90"],
      [NoEntry EXCEPT !.has = {"path", "plugin"},
                      !.path = "/watch", !.plugin = "noop"],
      [NoEntry EXCEPT !.has = {"path", "recursive"}, !.path = "/watch"],
      [NoEntry EXCEPT !.has = {"plugin", "quality"},
                      !.plugin = "noop", !.quality = "75"],
      [NoEntry EXCEPT !.has = {"path", "plugin"}, !.plugin = "noop"],
      [NoEntry EXCEPT !.has = {"path", "plugin"}, !.path = "/watch"],
      [NoEntry EXCEPT !.has = {"path", "plugin"},
                      !.path = PlaceholderPath, !.plugin = "noop"],
      [NoEntry EXCEPT !.has = {"_comment"}, !.comment = "example"],
      [NoEntry EXCEPT !.has = {"_comment", "path", "plugin"},
                      !.comment = "scans", !.path = "/watch",
                      !.plugin = "noop"],
      [NoEntry EXCEPT !.has = {"_comment", "path", "plugin", "quality"},
                      !.comment = "scans", !.path = "/watch/sub",
                      !.plugin = "noop", !.quality = "75"] }

EntryLists == UNION {[1..n -> ConfigEntries] : n \in 0..MaxFolders}

\* The directory the daemon runs in: what Path("").resolve() gives.
Cwd == <<"watch">>

\* pathlib.Path(s) followed by the resolve() of get_folder_config, on the
\* path strings of the model: Path("") is ".", the current directory.
Path(s) ==
    CASE s = "" -> Cwd
      [] s = "/watch" -> <<"watch">>
      [] s = "/watch/sub" -> <<"watch", "sub">>
      [] s = PlaceholderPath -> <<"absolute", "path", "to", "folder">>

\* str.startswith('/absolute/path/') on the path strings of the model.
startswith_placeholder(s) == s = PlaceholderPath

\* dict.get(key, default) for the two optional keys.
get_recursive(e) == IF "recursive" \in e.has THEN e.recursive ELSE FALSE
get_extensions(e) ==
    IF "extensions" \in e.has THEN e.extensions
    ELSE <<".tiff", ".tif", ".jpg">>

\* The keys FolderConfig.__init__ keeps out of plugin_config.
ReservedKeys == {"path", "recursive", "extensions", "plugin"}

\* The same comprehension with "extensions" left out of the list.
plugin_config_leaky(e) ==
    [has |-> e.has \ {"path", "recursive", "plugin"},
     comment |-> e.comment, quality |-> e.quality]

\* The dict comprehension of FolderConfig.__init__.
plugin_config(e) ==
    [has |-> e.has \ ReservedKeys,
     comment |-> e.comment, quality |-> e.quality]

\* FolderConfig.__init__ raises KeyError: config_dict['path'] or
\* config_dict['plugin'] on a dict without the key.
FolderConfig_raises(e) == "path" \notin e.has \/ "plugin" \notin e.has

\* FolderConfig.__init__ when it does not raise.
FolderConfig(e) ==
    [path |-> Path(e.path), recursive |-> get_recursive(e),
     extensions |-> get_extensions(e), plugin |-> e.plugin,
     plugin_config |-> plugin_config(e)]

NoResult == [reader |-> "none", folders |-> <<>>, errors |-> <<>>]

\* The loop with the try around it instead of inside it: the first
\* KeyError ends the load.
RECURSIVE parse_folders_abort(_, _, _)
parse_folders_abort(data, i, acc) ==
    IF i > Len(data) THEN acc
    ELSE IF FolderConfig_raises(data[i])
         THEN [acc EXCEPT !.errors = Append(@, i)]
         ELSE parse_folders_abort(data, i + 1,
                  [acc EXCEPT !.folders = Append(@, FolderConfig(data[i]))])

\* The loop of hump_yard's _parse_config from entry i on: folders are the
\* rules appended, errors the entries an error was logged for.
RECURSIVE parse_folders(_, _, _)
parse_folders(data, i, acc) ==
    IF i > Len(data) THEN acc
    ELSE IF FolderConfig_raises(data[i])
         THEN parse_folders(data, i + 1, [acc EXCEPT !.errors = Append(@, i)])
         ELSE parse_folders(data, i + 1,
                  [acc EXCEPT !.folders = Append(@, FolderConfig(data[i]))])

\* hump_yard ConfigReader._parse_config
parse_config(data) ==
    parse_folders(data, 1, [NoResult EXCEPT !.reader = "hump_yard"])

\* The two skip tests switched off.
is_example_never(e) == FALSE

\* file_monitor's _parse_config skips the entry before building it: a
\* _comment key in an entry of at most three keys, or a placeholder path.
is_example(e) ==
    \/ "_comment" \in e.has /\ Cardinality(e.has) <= 3
    \/ startswith_placeholder(IF "path" \in e.has THEN e.path ELSE "")

\* The loop of file_monitor's _parse_config from entry i on.
RECURSIVE fm_parse_folders(_, _, _)
fm_parse_folders(data, i, acc) ==
    IF i > Len(data) THEN acc
    ELSE IF is_example(data[i]) THEN fm_parse_folders(data, i + 1, acc)
    ELSE IF FolderConfig_raises(data[i])
         THEN fm_parse_folders(data, i + 1,
                  [acc EXCEPT !.errors = Append(@, i)])
         ELSE fm_parse_folders(data, i + 1,
                  [acc EXCEPT !.folders = Append(@, FolderConfig(data[i]))])

\* file_monitor ConfigReader._parse_config
fm_parse_config(data) ==
    fm_parse_folders(data, 1, [NoResult EXCEPT !.reader = "file_monitor"])

NoHanded == [file |-> <<>>, rule |-> 0, config |-> plugin_config(NoEntry)]

(***************************************************************************)
(* SpecMatch: get_folder_config on every bounded rule set and file path.   *)
(***************************************************************************)
InitMatch ==
    /\ qFolders \in RuleSets
    /\ qFile = <<>>
    /\ qResult = -1
    /\ platform = "posix"
    /\ pidFile = 0
    /\ configExists = TRUE
    /\ config = <<>>
    /\ proc = [p \in Pids |-> NoProc]
    /\ folders = [p \in Pids |-> <<>>]
    /\ plugins = [p \in Pids |-> {}]
    /\ observers = [p \in Pids |-> <<>>]
    /\ nCreated = 0
    /\ cmd = [c \in CmdIds |-> NoCmd]
    /\ nInvoked = 0
    /\ regPlugins = NoPlugins
    /\ regCall = NoCall
    /\ hist = <<>>
    /\ cfgEntries = <<>>
    /\ cfgResult = NoResult
    /\ cfgHanded = NoHanded

MatchCall ==
    /\ qResult = -1
    /\ \E f \in FilePaths :
        /\ qFile' = f
        /\ qResult' = get_folder_config(qFolders, f)
    /\ UNCHANGED <<cfgVars, regVars, hist, qFolders, envVars, pidFile, proc, daemonVars, nCreated, cmd, nInvoked>>

NextMatch == MatchCall

SpecMatch == InitMatch /\ [][NextMatch]_vars

(***************************************************************************)
(* Properties of the rule store, stated without the code's loop.           *)
(***************************************************************************)
\* rp is equal to fp or a leading part of it
PathIsPrefix(rp, fp) == Len(rp) <= Len(fp) /\ SubSeq(fp, 1, Len(rp)) = rp

\* the rule's path is a prefix of the resolved file and its filter accepts it
RuleAccepts(r, f) ==
    /\ ~resolve_raises(r.path)
    /\ PathIsPrefix(resolve(r.path), resolve(f))
    /\ should_process_file(r, resolve(f))

\* f lies in a subdirectory of the rule's path, not directly inside it
InSubdirectory(r, f) ==
    /\ ~resolve_raises(r.path)
    /\ PathIsPrefix(resolve(r.path), resolve(f))
    /\ Len(resolve(f)) > Len(resolve(r.path)) + 1

\* C3: get_folder_config returns the first rule, in declared order, whose
\* path is equal to or a prefix of the resolved file path and whose
\* extension filter accepts the suffix; never a later rule when an earlier
\* one matches, and None exactly when no rule matches.
C3_FirstMatchWins ==
    qResult # -1 =>
        /\ qResult \in 0..Len(qFolders)
        /\ (qResult = 0) <=>
               (\A i \in 1..Len(qFolders) : ~RuleAccepts(qFolders[i], qFile))
        /\ qResult # 0 =>
               /\ RuleAccepts(qFolders[qResult], qFile)
               /\ \A j \in 1..(qResult - 1) : ~RuleAccepts(qFolders[j], qFile)

\* C3 witness: two rules both match the file and the first one is returned.
C3_Witness ==
    /\ qResult = 1
    /\ Len(qFolders) = 2
    /\ RuleAccepts(qFolders[2], qFile)
    /\ qFolders[1] # qFolders[2]

\* C4: a rule with recursive = FALSE is never returned for a file in a
\* subdirectory of its path, and a rule with recursive = TRUE that is the
\* first to accept such a file is returned.
C4_RecursiveHonoured ==
    qResult # -1 =>
        /\ qResult # 0 /\ ~qFolders[qResult].recursive
               => ~InSubdirectory(qFolders[qResult], qFile)
        /\ \A i \in 1..Len(qFolders) :
               ( /\ qFolders[i].recursive
                 /\ InSubdirectory(qFolders[i], qFile)
                 /\ RuleAccepts(qFolders[i], qFile)
                 /\ \A j \in 1..(i - 1) : ~RuleAccepts(qFolders[j], qFile) )
               => qResult = i

(***************************************************************************)
(* The daemon process: _run_daemon, FileMonitorDaemon and its watchers.    *)
(***************************************************************************)
\* remove_pid_file: the PID file is unlinked when it exists
remove_pid_file(pf) == 0

\* write_pid: the PID file holds the pid
write_pid(pf, pid) == pid

\* read_pid: the pid in the file, 0 (None) when the file is absent or its
\* content is not a number (written -1 here)
read_pid(pf) == IF pf > 0 THEN pf ELSE 0

\* directories that exist on disk (canonical paths)
ExistingDirs == { <<"watch">>, <<"watch", "sub">> }

\* the names under which plugin discovery registers a plugin
InstalledPlugins == {"noop", "exif"}

\* Path.exists() of a rule's path
path_exists(path) == ~resolve_raises(path) /\ resolve(path) \in ExistingDirs

\* configuration files of SpecDaemon
DaemonConfigs == {
    << [path |-> <<"watch">>, recursive |-> FALSE,
        extensions |-> <<".jpg">>, plugin |-> "noop"] >>,
    << [path |-> <<"watch">>, recursive |-> FALSE,
        extensions |-> <<>>, plugin |-> "noop"],
       [path |-> <<"watch", "sub">>, recursive |-> TRUE,
        extensions |-> <<".png">>, plugin |-> "missing"] >>,
    << [path |-> <<"watch">>, recursive |-> TRUE,
        extensions |-> <<".JPG">>, plugin |-> "exif"],
       [path |-> <<"watch", "sub", "..">>, recursive |-> FALSE,
        extensions |-> <<>>, plugin |-> "noop"],
       [path |-> <<"gone">>, recursive |-> FALSE,
        extensions |-> <<>>, plugin |-> "noop"] >>,
    << [path |-> <<"watch">>, recursive |-> FALSE,
        extensions |-> <<".png">>, plugin |-> "missing"],
       [path |-> <<"watch", "a.jpg">>, recursive |-> FALSE,
        extensions |-> <<>>, plugin |-> "noop"] >> }

\* what gets created in the filesystem while the daemon runs
Creations == {
    [path |-> <<"watch", "a.jpg">>, is_directory |-> FALSE],
    [path |-> <<"watch", "a.png">>, is_directory |-> FALSE],
    [path |-> <<"watch", "sub", "a.jpg">>, is_directory |-> FALSE],
    [path |-> <<"watch", "sub">>, is_directory |-> TRUE] }

\* the indices of the observers a daemon can have
WatcherIds == UNION {DOMAIN c : c \in DaemonConfigs}

\* ConfigReader._load_config: a missing file leaves the rule set empty
load_config(exists, cfg) == IF exists THEN cfg ELSE <<>>

\* a watcher scheduled recursively whatever the rule says
NewObserverRecursive(fc) ==
    [root |-> fc.path, recursive |-> TRUE, st |-> "new",
     queue |-> <<>>, pc |-> "idle", cur |-> <<>>, plugin |-> "",
     crash |-> "", log |-> <<>>]

\* a watcher thread as created by setup_observers for one rule
NewObserver(fc) ==
    [root |-> fc.path, recursive |-> fc.recursive, st |-> "new",
     queue |-> <<>>, pc |-> "idle", cur |-> <<>>, plugin |-> "",
     crash |-> "", log |-> <<>>]

\* FileMonitorDaemon.setup_observers: one observer per rule whose folder exists
RECURSIVE setup_observers(_)
setup_observers(flds) ==
    IF flds = <<>> THEN <<>>
    ELSE IF path_exists(Head(flds).path)
         THEN <<NewObserver(Head(flds))>> \o setup_observers(Tail(flds))
         ELSE setup_observers(Tail(flds))

\* _run_daemon going on without the write_pid of line 177.
RunWritePidSkipped(p) ==
    /\ proc[p].pc = "boot"
    /\ pidFile' = pidFile
    /\ proc' = [proc EXCEPT ![p].pc = "written"]
    /\ UNCHANGED <<cfgVars, regVars, hist, qVars, envVars, daemonVars, nCreated, cmd, nInvoked>>

\* _run_daemon line 177: write_pid(os.getpid())
RunWritePid(p) ==
    /\ proc[p].pc = "boot"
    /\ pidFile' = write_pid(pidFile, p)
    /\ proc' = [proc EXCEPT ![p].pc = "written"]
    /\ UNCHANGED <<cfgVars, regVars, hist, qVars, envVars, daemonVars, nCreated, cmd, nInvoked>>

\* _run_daemon lines 180-185: signal_handler installed for SIGTERM and SIGINT
RunInstallHandlers(p) ==
    /\ proc[p].pc = "written"
    /\ proc' = [proc EXCEPT ![p].pc = "installed"]
    /\ UNCHANGED <<cfgVars, regVars, hist, qVars, envVars, pidFile, daemonVars, nCreated, cmd, nInvoked>>

\* _run_daemon line 195: FileMonitorDaemon(config_path), i.e. __init__:
\* the rule store is loaded, the plugins discovered, the observers set up
RunConstruct(p) ==
    /\ proc[p].pc = "installed"
    /\ LET flds == load_config(configExists, config) IN
        /\ folders' = [folders EXCEPT ![p] = flds]
        /\ plugins' = [plugins EXCEPT ![p] = InstalledPlugins]
        /\ observers' = [observers EXCEPT ![p] = setup_observers(flds)]
    /\ proc' = [proc EXCEPT ![p].pc = "constructed"]
    /\ UNCHANGED <<cfgVars, regVars, hist, qVars, envVars, pidFile, nCreated, cmd, nInvoked>>

\* FileMonitorDaemon.start: every observer thread is started, then the main
\* thread sleeps in its loop
RunStart(p) ==
    /\ proc[p].pc = "constructed"
    /\ observers' = [observers EXCEPT ![p] =
                        [w \in 1..Len(@) |-> [@[w] EXCEPT !.st = "started"]]]
    /\ proc' = [proc EXCEPT ![p].pc = "running"]
    /\ UNCHANGED <<cfgVars, regVars, hist, qVars, envVars, pidFile, folders, plugins, nCreated, cmd, nInvoked>>

\* the threads of a process end with it: watchdog's observers are daemon threads
EndThreads(obs) ==
    [w \in 1..Len(obs) |->
        IF obs[w].st = "started" THEN [obs[w] EXCEPT !.st = "killed"] ELSE obs[w]]

\* The except clause exiting with 1 without remove_pid_file().
RunDaemonErrorKeepsPid(p) ==
    /\ proc[p].pc \in {"installed", "constructed"}
    /\ pidFile' = pidFile
    /\ proc' = [proc EXCEPT ![p] = [pc |-> "exited", sig |-> {}, exit |-> 1]]
    /\ observers' = [observers EXCEPT ![p] = EndThreads(@)]
    /\ UNCHANGED <<cfgVars, regVars, hist, qVars, envVars, folders, plugins, nCreated, cmd, nInvoked>>

\* _run_daemon lines 197-200: the constructor or start raised; the PID file
\* is removed and the process exits with 1
RunDaemonError(p) ==
    /\ proc[p].pc \in {"installed", "constructed"}
    /\ pidFile' = remove_pid_file(pidFile)
    /\ proc' = [proc EXCEPT ![p] = [pc |-> "exited", sig |-> {}, exit |-> 1]]
    /\ observers' = [observers EXCEPT ![p] = EndThreads(@)]
    /\ UNCHANGED <<cfgVars, regVars, hist, qVars, envVars, folders, plugins, nCreated, cmd, nInvoked>>

\* signal_handler exiting without remove_pid_file().
SignalHandlerKeepsPid(p) ==
    /\ proc[p].pc \in {"installed", "constructed", "running"}
    /\ proc[p].sig \cap {"term", "int"} # {}
    /\ pidFile' = pidFile
    /\ proc' = [proc EXCEPT ![p] = [pc |-> "exited", sig |-> {}, exit |-> 0]]
    /\ observers' = [observers EXCEPT ![p] = EndThreads(@)]
    /\ UNCHANGED <<cfgVars, regVars, hist, qVars, envVars, folders, plugins, nCreated, cmd, nInvoked>>

\* signal_handler (lines 180-182) run by the main thread on SIGTERM or SIGINT:
\* remove_pid_file(), then sys.exit(0).  SystemExit passes the except clauses
\* of start (KeyboardInterrupt) and _run_daemon (Exception), so
\* FileMonitorDaemon.stop is not called and the observers end with the process.
SignalHandler(p) ==
    /\ proc[p].pc \in {"installed", "constructed", "running"}
    /\ proc[p].sig \cap {"term", "int"} # {}
    /\ pidFile' = remove_pid_file(pidFile)
    /\ proc' = [proc EXCEPT ![p] = [pc |-> "exited", sig |-> {}, exit |-> 0]]
    /\ observers' = [observers EXCEPT ![p] = EndThreads(@)]
    /\ UNCHANGED <<cfgVars, regVars, hist, qVars, envVars, folders, plugins, nCreated, cmd, nInvoked>>

\* SIGTERM before signal.signal ran: the default disposition ends the process
\* and nothing removes the PID file
DefaultTerminate(p) ==
    /\ proc[p].pc \in {"boot", "written"}
    /\ "term" \in proc[p].sig
    /\ proc' = [proc EXCEPT ![p] = [pc |-> "exited", sig |-> {}, exit |-> -15]]
    /\ UNCHANGED <<cfgVars, regVars, hist, qVars, envVars, pidFile, daemonVars, nCreated, cmd, nInvoked>>

\* SIGINT before signal.signal ran: KeyboardInterrupt reaches main (lines
\* 351-354), which removes the PID file and exits with 0
KeyboardInterrupt(p) ==
    /\ proc[p].pc \in {"boot", "written"}
    /\ "int" \in proc[p].sig
    /\ pidFile' = remove_pid_file(pidFile)
    /\ proc' = [proc EXCEPT ![p] = [pc |-> "exited", sig |-> {}, exit |-> 0]]
    /\ UNCHANGED <<cfgVars, regVars, hist, qVars, envVars, daemonVars, nCreated, cmd, nInvoked>>

\* SIGKILL (or taskkill /F) takes effect: the process ends where it is
Killed(p) ==
    /\ Alive(p)
    /\ "kill" \in proc[p].sig
    /\ proc' = [proc EXCEPT ![p] = [pc |-> "exited", sig |-> {}, exit |-> -9]]
    /\ observers' = [observers EXCEPT ![p] = EndThreads(@)]
    /\ UNCHANGED <<cfgVars, regVars, hist, qVars, envVars, pidFile, folders, plugins, nCreated, cmd, nInvoked>>

(***************************************************************************)
(* The watcher threads: the filesystem feed, on_created and process_file.  *)
(***************************************************************************)
\* the observer scheduled on o.root (recursive or not) reports file f
Covers(o, f) ==
    LET r == resolve(o.root) IN
    /\ is_relative_to(f, r)
    /\ Len(f) > Len(r)
    /\ (o.recursive \/ Len(f) = Len(r) + 1)

\* the src_path of the event: the watch path as scheduled, then the rest
SrcPath(o, f) ==
    o.root \o SubSeq(f, Len(resolve(o.root)) + 1, Len(f))

\* something is created on disk: each observer thread watching the place
\* gets the event in its queue
FileCreated(ev) ==
    /\ nCreated < MaxEvents
    /\ \E p \in Pids : proc[p].pc = "running"
    /\ nCreated' = nCreated + 1
    /\ observers' =
         [p \in Pids |->
            [w \in 1..Len(observers[p]) |->
                LET o == observers[p][w] IN
                IF o.st \in {"started", "crashed"} /\ Covers(o, ev.path)
                THEN [o EXCEPT !.queue = Append(@,
                         [src_path |-> SrcPath(o, ev.path),
                          is_directory |-> ev.is_directory])]
                ELSE o]]
    /\ UNCHANGED <<cfgVars, regVars, hist, qVars, envVars, pidFile, proc, folders, plugins, cmd, nInvoked>>

LogEntry(op, plugin, path, result) ==
    [op |-> op, plugin |-> plugin, path |-> path, result |-> result]

\* get_plugin returning a plugin for every name
get_plugin_any(plugs, name) == name

\* PluginManager.get_plugin: self.plugins.get(name), "" stands for None
get_plugin(plugs, name) == IF name \in plugs THEN name ELSE ""

\* the test of line 116 taking every answer of can_handle as true
handles_always(answer) == TRUE

\* process_file line 116: if plugin.can_handle(file_path)
handles(answer) == answer = "true"

\* on_created taking the next event while the one before is still being
\* processed.
OnCreatedOverlapping(p, w) ==
    /\ Alive(p)
    /\ w \in 1..Len(observers[p])
    /\ LET o == observers[p][w] IN
        /\ o.st = "started"
        /\ o.queue # <<>>
        /\ LET ev == Head(o.queue)
               fc == get_folder_config(folders[p], ev.src_path)
               name == IF fc = 0 THEN "" ELSE folders[p][fc].plugin
               taken == [o EXCEPT !.queue = Tail(@)]
               Skip(why) == [taken EXCEPT !.log =
                                Append(@, LogEntry(why, name, ev.src_path, ""))]
           IN
           IF ev.is_directory
           THEN observers' = [observers EXCEPT ![p][w] = Skip("directory")]
           ELSE IF fc = 0
           THEN observers' = [observers EXCEPT ![p][w] = Skip("no_rule")]
           ELSE IF get_plugin(plugins[p], name) = ""
           THEN observers' = [observers EXCEPT ![p][w] = Skip("no_plugin")]
           ELSE \E r \in {"true", "false", "raise"} :
                LET called == [taken EXCEPT !.log =
                       Append(@, LogEntry("can_handle", name, ev.src_path, r))]
                IN observers' = [observers EXCEPT ![p][w] =
                     IF r = "raise"
                     THEN [called EXCEPT !.st = "crashed",
                                         !.crash = "can_handle"]
                     ELSE IF handles(r)
                     THEN [called EXCEPT !.pc = "process",
                                         !.cur = ev.src_path,
                                         !.plugin = name]
                     ELSE called]
    /\ UNCHANGED <<cfgVars, regVars, hist, qVars, envVars, pidFile, proc, folders, plugins, nCreated, cmd, nInvoked>>

\* FileEventHandler.on_created (lines 35-36) and process_file up to the call
\* of plugin.process (lines 106-117, 128): the observer thread takes its next
\* event; can_handle answers true, false or raises
OnCreated(p, w) ==
    /\ Alive(p)
    /\ w \in 1..Len(observers[p])
    /\ LET o == observers[p][w] IN
        /\ o.st = "started"
        /\ o.pc = "idle"
        /\ o.queue # <<>>
        /\ LET ev == Head(o.queue)
               fc == get_folder_config(folders[p], ev.src_path)
               name == IF fc = 0 THEN "" ELSE folders[p][fc].plugin
               taken == [o EXCEPT !.queue = Tail(@)]
               Skip(why) == [taken EXCEPT !.log =
                                Append(@, LogEntry(why, name, ev.src_path, ""))]
           IN
           IF ev.is_directory
           THEN observers' = [observers EXCEPT ![p][w] = Skip("directory")]
           ELSE IF fc = 0
           THEN observers' = [observers EXCEPT ![p][w] = Skip("no_rule")]
           ELSE IF get_plugin(plugins[p], name) = ""
           THEN observers' = [observers EXCEPT ![p][w] = Skip("no_plugin")]
           ELSE \E r \in {"true", "false", "raise"} :
                LET called == [taken EXCEPT !.log =
                       Append(@, LogEntry("can_handle", name, ev.src_path, r))]
                IN observers' = [observers EXCEPT ![p][w] =
                     IF r = "raise"
                     THEN [called EXCEPT !.st = "crashed",
                                         !.crash = "can_handle"]
                     ELSE IF handles(r)
                     THEN [called EXCEPT !.pc = "process",
                                         !.cur = ev.src_path,
                                         !.plugin = name]
                     ELSE called]
    /\ UNCHANGED <<cfgVars, regVars, hist, qVars, envVars, pidFile, proc, folders, plugins, nCreated, cmd, nInvoked>>

\* plugin.process with a dispatcher that registers one more plugin on the
\* way.
PluginProcessRegisters(p, w) ==
    /\ Alive(p)
    /\ w \in 1..Len(observers[p])
    /\ LET o == observers[p][w] IN
        /\ o.st = "started"
        /\ o.pc = "process"
        /\ \E r \in {"true", "false", "raise"} :
            LET called == [o EXCEPT !.log =
                   Append(@, LogEntry("process", o.plugin, o.cur, r))]
            IN observers' = [observers EXCEPT ![p][w] =
                 IF r = "raise"
                 THEN [called EXCEPT !.pc = "on_error"]
                 ELSE [called EXCEPT !.pc = "idle", !.cur = <<>>,
                                     !.plugin = ""]]
    /\ plugins' = [plugins EXCEPT ![p] = @ \cup {"rename"}]
    /\ UNCHANGED <<cfgVars, regVars, hist, qVars, envVars, pidFile, proc, folders, nCreated, cmd, nInvoked>>

\* process_file lines 118-125: plugin.process returns true or false, or
\* raises and the except clause is entered
PluginProcess(p, w) ==
    /\ Alive(p)
    /\ w \in 1..Len(observers[p])
    /\ LET o == observers[p][w] IN
        /\ o.st = "started"
        /\ o.pc = "process"
        /\ \E r \in {"true", "false", "raise"} :
            LET called == [o EXCEPT !.log =
                   Append(@, LogEntry("process", o.plugin, o.cur, r))]
            IN observers' = [observers EXCEPT ![p][w] =
                 IF r = "raise"
                 THEN [called EXCEPT !.pc = "on_error"]
                 ELSE [called EXCEPT !.pc = "idle", !.cur = <<>>,
                                     !.plugin = ""]]
    /\ UNCHANGED <<cfgVars, regVars, hist, qVars, envVars, pidFile, proc, folders, plugins, nCreated, cmd, nInvoked>>

\* process_file line 126: plugin.on_error(file_path, e) inside the except
\* clause; an exception it raises leaves process_file and on_created and
\* ends the observer thread
PluginOnError(p, w) ==
    /\ Alive(p)
    /\ w \in 1..Len(observers[p])
    /\ LET o == observers[p][w] IN
        /\ o.st = "started"
        /\ o.pc = "on_error"
        /\ \E r \in {"ok", "raise"} :
            LET called == [o EXCEPT !.log =
                   Append(@, LogEntry("on_error", o.plugin, o.cur, r))]
            IN observers' = [observers EXCEPT ![p][w] =
                 IF r = "raise"
                 THEN [called EXCEPT !.st = "crashed", !.crash = "on_error",
                                     !.pc = "idle", !.cur = <<>>, !.plugin = ""]
                 ELSE [called EXCEPT !.pc = "idle", !.cur = <<>>,
                                     !.plugin = ""]]
    /\ UNCHANGED <<cfgVars, regVars, hist, qVars, envVars, pidFile, proc, folders, plugins, nCreated, cmd, nInvoked>>

\* the operator or the system signals the daemon (kill, Ctrl-C)
EnvSignal(p, s) ==
    /\ Alive(p)
    /\ proc[p].sig = {}
    /\ proc' = [proc EXCEPT ![p].sig = {s}]
    /\ UNCHANGED <<cfgVars, regVars, hist, qVars, envVars, pidFile, daemonVars, nCreated, cmd, nInvoked>>

(***************************************************************************)
(* SpecDaemon: one instance, pid 1, entering _run_daemon.                  *)
(***************************************************************************)
InitDaemon ==
    /\ qFolders = <<>>
    /\ qFile = <<>>
    /\ qResult = -1
    /\ platform = "posix"
    /\ pidFile = 0
    /\ configExists \in BOOLEAN
    /\ config \in DaemonConfigs
    /\ proc = [p \in Pids |-> IF p = 1 THEN [NoProc EXCEPT !.pc = "boot"]
                              ELSE NoProc]
    /\ folders = [p \in Pids |-> <<>>]
    /\ plugins = [p \in Pids |-> {}]
    /\ observers = [p \in Pids |-> <<>>]
    /\ nCreated = 0
    /\ cmd = [c \in CmdIds |-> NoCmd]
    /\ nInvoked = 0
    /\ regPlugins = NoPlugins
    /\ regCall = NoCall
    /\ hist = <<>>
    /\ cfgEntries = <<>>
    /\ cfgResult = NoResult
    /\ cfgHanded = NoHanded

NextDaemon ==
    \/ \E p \in Pids :
        \/ RunWritePid(p)
        \/ RunInstallHandlers(p)
        \/ RunConstruct(p)
        \/ RunStart(p)
        \/ RunDaemonError(p)
        \/ SignalHandler(p)
        \/ DefaultTerminate(p)
        \/ KeyboardInterrupt(p)
        \/ \E s \in {"term", "int"} : EnvSignal(p, s)
        \/ \E w \in WatcherIds :
            \/ OnCreated(p, w)
            \/ PluginProcess(p, w)
            \/ PluginOnError(p, w)
    \/ \E ev \in Creations : FileCreated(ev)

SpecDaemon == InitDaemon /\ [][NextDaemon]_vars

(***************************************************************************)
(* Properties of the dispatcher and of the daemon's teardown.              *)
(***************************************************************************)
\* number of entries of the log with this operation and this result
\* ("" = any result)
Count(log, op, result) ==
    Cardinality({i \in 1..Len(log) :
                    log[i].op = op /\ (result = "" \/ log[i].result = result)})

\* C1: when plugin.process raises, on_error is invoked exactly once for that
\* failure, and the observer thread goes on to dispatch the events after it.
C1_OnErrorOnceThenGoOn ==
    \A p \in Pids : \A w \in 1..Len(observers[p]) :
        LET o == observers[p][w]
            raised == Count(o.log, "process", "raise")
            hooks == Count(o.log, "on_error", "")
        IN  /\ o.st \in {"started", "crashed"} =>
                 hooks = raised - (IF o.pc = "on_error" THEN 1 ELSE 0)
            /\ raised > 0 => o.crash # "on_error"

\* C2: a failure of plugin.process, also one whose on_error hook fails, never
\* leaves process_file and never ends the observer thread that delivered
\* the event.
C2_FailureNeverEscapes ==
    \A p \in Pids : \A w \in 1..Len(observers[p]) :
        LET o == observers[p][w] IN
        o.st = "crashed" => o.log[Len(o.log)].op # "on_error"

\* C10: on a termination signal the PID record is removed and the process
\* exits only after every observer has been stopped and has finished its
\* dispatch: no observer is still running when the process is gone.
C10_WatchersStoppedBeforeExit ==
    \A p \in Pids :
        proc[p].pc = "exited" /\ proc[p].exit = 0 =>
            \A w \in 1..Len(observers[p]) : observers[p][w].st # "killed"

(***************************************************************************)
(* The commands: cmd_start, cmd_stop, cmd_status.                          *)
(***************************************************************************)
\* is_process_running: os.kill(pid, 0) on POSIX, OpenProcess on Windows.
\* For a live process of another user os.kill raises PermissionError (an
\* OSError) and OpenProcess returns no handle: both answer False.
is_process_running(pid) ==
    pid \in Pids /\ Alive(pid) /\ proc[pid].pc # "foreign"

\* the configuration file of SpecSup
SupConfig ==
    << [path |-> <<"watch">>, recursive |-> FALSE,
        extensions |-> <<".jpg">>, plugin |-> "noop"] >>

\* the pid the operating system gives the next process
HasFreePid == \E p \in Pids : proc[p].pc = "none"
FreePid == CHOOSE p \in Pids :
              proc[p].pc = "none" /\ \A q \in Pids : proc[q].pc = "none" => p <= q

Done(c, code) == [cmd[c] EXCEPT !.pc = "done", !.exit = code]

Busy(c) == cmd[c].pc \notin {"none", "done"}

\* cmd_stop returns normally: the stop command ends with exit 0, cmd_restart
\* (lines 258-261) goes on with the sleep and cmd_start
StopReturn(c) ==
    IF cmd[c].kind = "restart" THEN [cmd[c] EXCEPT !.pc = "start_read"]
    ELSE Done(c, 0)

\* the operator runs a command in a free terminal, the second terminal
\* only while the first is busy
Invoke(c, kind, fg) ==
    /\ nInvoked < MaxCmds
    /\ ~Busy(c)
    /\ \A b \in CmdIds : b < c => Busy(b)
    /\ nInvoked' = nInvoked + 1
    /\ cmd' = [cmd EXCEPT ![c] =
                 [NoCmd EXCEPT !.kind = kind, !.fg = fg, !.pc = kind \o "_read",
                    !.base = IF is_process_running(read_pid(pidFile))
                             THEN read_pid(pidFile) ELSE 0]]
    /\ UNCHANGED <<cfgVars, regVars, hist, qVars, envVars, pidFile, proc, daemonVars, nCreated>>

\* cmd_start line 108: pid = read_pid()
StartRead(c) ==
    /\ cmd[c].pc = "start_read"
    /\ LET pid == read_pid(pidFile) IN
       cmd' = [cmd EXCEPT ![c].pid = pid,
                          ![c].pc = IF pid # 0 THEN "start_probe"
                                    ELSE "start_launch"]
    /\ UNCHANGED <<cfgVars, regVars, hist, qVars, envVars, pidFile, proc, daemonVars, nCreated, nInvoked>>

\* cmd_start with the liveness check of line 109 left out
StartProbeUnchecked(c) ==
    /\ cmd[c].pc = "start_probe"
    /\ cmd' = [cmd EXCEPT ![c].pc = "start_purge", ![c].lastProbe = "dead"]
    /\ UNCHANGED <<cfgVars, regVars, hist, qVars, envVars, pidFile, proc, daemonVars, nCreated, nInvoked>>

\* cmd_start lines 109-111: a live pid means AlreadyRunning, exit 1
StartProbe(c) ==
    /\ cmd[c].pc = "start_probe"
    /\ cmd' = [cmd EXCEPT ![c] =
                 IF is_process_running(cmd[c].pid)
                 THEN [Done(c, 1) EXCEPT !.lastProbe = "alive"]
                 ELSE [@ EXCEPT !.pc = "start_purge", !.lastProbe = "dead"]]
    /\ UNCHANGED <<cfgVars, regVars, hist, qVars, envVars, pidFile, proc, daemonVars, nCreated, nInvoked>>

\* cmd_start lines 114-115: the stale PID file is removed
StartPurge(c) ==
    /\ cmd[c].pc = "start_purge"
    /\ pidFile' = remove_pid_file(pidFile)
    /\ cmd' = [cmd EXCEPT ![c].pc = "start_launch", ![c].removed = "stale"]
    /\ UNCHANGED <<cfgVars, regVars, hist, qVars, envVars, proc, daemonVars, nCreated, nInvoked>>

\* cmd_start lines 118-121: no configuration file, exit 1
StartNoConfig(c) ==
    /\ cmd[c].pc = "start_launch"
    /\ ~configExists
    /\ cmd' = [cmd EXCEPT ![c] = Done(c, 1)]
    /\ UNCHANGED <<cfgVars, regVars, hist, qVars, envVars, pidFile, proc, daemonVars, nCreated, nInvoked>>

\* cmd_start lines 123-165: with --foreground the command's own process
\* enters _run_daemon; otherwise a child does (os.fork and setsid, or a
\* detached Popen on Windows) and the parent sleeps
StartLaunch(c) ==
    /\ cmd[c].pc = "start_launch"
    /\ configExists
    /\ HasFreePid
    /\ proc' = [proc EXCEPT ![FreePid] = [NoProc EXCEPT !.pc = "boot"]]
    /\ cmd' = [cmd EXCEPT ![c].child = FreePid,
                          ![c].pc = IF cmd[c].fg THEN "foreground"
                                    ELSE "start_wait"]
    /\ UNCHANGED <<cfgVars, regVars, hist, qVars, envVars, pidFile, daemonVars, nCreated, nInvoked>>

\* the foreground command ends when _run_daemon ends, with its exit status
ForegroundExit(c) ==
    /\ cmd[c].pc = "foreground"
    /\ proc[cmd[c].child].pc = "exited"
    /\ cmd' = [cmd EXCEPT ![c] = Done(c, proc[cmd[c].child].exit)]
    /\ UNCHANGED <<cfgVars, regVars, hist, qVars, envVars, pidFile, proc, daemonVars, nCreated, nInvoked>>

\* cmd_start lines 143 / 155 after the sleep: the PID file is read again
StartVerifyRead(c) ==
    /\ cmd[c].pc = "start_wait"
    /\ LET pid == read_pid(pidFile) IN
       cmd' = [cmd EXCEPT ![c] =
                 IF pid # 0 THEN [@ EXCEPT !.pid = pid, !.pc = "start_verify"]
                 ELSE [Done(c, 1) EXCEPT !.pid = pid]]
    /\ UNCHANGED <<cfgVars, regVars, hist, qVars, envVars, pidFile, proc, daemonVars, nCreated, nInvoked>>

\* cmd_start lines 144-148 / 156-161: success when that pid is alive
StartVerify(c) ==
    /\ cmd[c].pc = "start_verify"
    /\ cmd' = [cmd EXCEPT ![c] =
                 IF is_process_running(cmd[c].pid)
                 THEN [Done(c, 0) EXCEPT !.lastProbe = "alive"]
                 ELSE [Done(c, 1) EXCEPT !.lastProbe = "dead"]]
    /\ UNCHANGED <<cfgVars, regVars, hist, qVars, envVars, pidFile, proc, daemonVars, nCreated, nInvoked>>

\* cmd_stop with the test of line 206 left out
StopReadUnchecked(c) ==
    /\ cmd[c].pc = "stop_read"
    /\ cmd' = [cmd EXCEPT ![c].pid = read_pid(pidFile), ![c].pc = "stop_probe"]
    /\ UNCHANGED <<cfgVars, regVars, hist, qVars, envVars, pidFile, proc, daemonVars, nCreated, nInvoked>>

\* cmd_stop lines 205-208: no pid read means not running, exit 1
StopRead(c) ==
    /\ cmd[c].pc = "stop_read"
    /\ LET pid == read_pid(pidFile) IN
       cmd' = [cmd EXCEPT ![c] =
                 IF pid # 0 THEN [@ EXCEPT !.pid = pid, !.pc = "stop_probe"]
                 ELSE [Done(c, 1) EXCEPT !.pid = pid]]
    /\ UNCHANGED <<cfgVars, regVars, hist, qVars, envVars, pidFile, proc, daemonVars, nCreated, nInvoked>>

\* cmd_stop with the liveness check of line 210 left out
StopProbeUnchecked(c) ==
    /\ cmd[c].pc = "stop_probe"
    /\ cmd' = [cmd EXCEPT ![c].pc = "stop_signal", ![c].lastProbe = "alive"]
    /\ UNCHANGED <<cfgVars, regVars, hist, qVars, envVars, pidFile, proc, daemonVars, nCreated, nInvoked>>

\* cmd_stop line 210: is the process alive?
StopProbe(c) ==
    /\ cmd[c].pc = "stop_probe"
    /\ cmd' = [cmd EXCEPT ![c] =
                 IF is_process_running(cmd[c].pid)
                 THEN [@ EXCEPT !.pc = "stop_signal", !.lastProbe = "alive"]
                 ELSE [@ EXCEPT !.pc = "stop_purge", !.lastProbe = "dead"]]
    /\ UNCHANGED <<cfgVars, regVars, hist, qVars, envVars, pidFile, proc, daemonVars, nCreated, nInvoked>>

\* cmd_stop lines 211-213: the stale PID file is removed, exit 1
StopPurge(c) ==
    /\ cmd[c].pc = "stop_purge"
    /\ pidFile' = remove_pid_file(pidFile)
    /\ cmd' = [cmd EXCEPT ![c] = [Done(c, 1) EXCEPT !.removed = "stale"]]
    /\ UNCHANGED <<cfgVars, regVars, hist, qVars, envVars, proc, daemonVars, nCreated, nInvoked>>

\* one delivery by os.kill or taskkill, as the command remembers it
Sent(c, s) == Append(cmd[c].sent, [sig |-> s, polls |-> cmd[c].i])

\* cmd_stop lines 217-223: taskkill /F on Windows, SIGTERM elsewhere; os.kill
\* raises OSError when the process is gone, and lines 243-245 exit with 1
StopSignal(c) ==
    /\ cmd[c].pc = "stop_signal"
    /\ LET pid == cmd[c].pid IN
       IF platform = "win32"
       THEN /\ proc' = IF Alive(pid) THEN [proc EXCEPT ![pid].sig = @ \cup {"kill"}]
                       ELSE proc
            /\ cmd' = [cmd EXCEPT ![c].pc = "stop_poll", ![c].sent = Sent(c, "kill")]
       ELSE IF Alive(pid)
       THEN /\ proc' = [proc EXCEPT ![pid].sig = @ \cup {"term"}]
            /\ cmd' = [cmd EXCEPT ![c].pc = "stop_poll", ![c].sent = Sent(c, "term")]
       ELSE /\ proc' = proc
            /\ cmd' = [cmd EXCEPT ![c] = Done(c, 1)]
    /\ UNCHANGED <<cfgVars, regVars, hist, qVars, envVars, pidFile, daemonVars, nCreated, nInvoked>>

\* The loop as `while True`: it is left only when the process is gone.
StopPollUnbounded(c) ==
    /\ cmd[c].pc = "stop_poll"
    /\ cmd' = [cmd EXCEPT ![c] =
                 IF ~is_process_running(cmd[c].pid)
                 THEN [@ EXCEPT !.pc = "stop_remove", !.lastProbe = "dead"]
                 ELSE [@ EXCEPT !.lastProbe = "alive"]]
    /\ UNCHANGED <<cfgVars, regVars, hist, qVars, envVars, pidFile, proc, daemonVars, nCreated, nInvoked>>

\* cmd_stop lines 226-228: one round of the loop, sleep then probe; after
\* the last round the loop is left for the forced kill
StopPoll(c) ==
    /\ cmd[c].pc = "stop_poll"
    /\ cmd[c].i < StopPolls
    /\ cmd' = [cmd EXCEPT ![c] =
                 IF ~is_process_running(cmd[c].pid)
                 THEN [@ EXCEPT !.i = @ + 1, !.pc = "stop_remove",
                                !.lastProbe = "dead"]
                 ELSE [@ EXCEPT !.i = @ + 1, !.lastProbe = "alive",
                                !.pc = IF cmd[c].i + 1 = StopPolls
                                       THEN "stop_force" ELSE "stop_poll"]]
    /\ UNCHANGED <<cfgVars, regVars, hist, qVars, envVars, pidFile, proc, daemonVars, nCreated, nInvoked>>

\* cmd_stop lines 229-231: the process is gone, the PID file is removed
StopRemove(c) ==
    /\ cmd[c].pc = "stop_remove"
    /\ pidFile' = remove_pid_file(pidFile)
    /\ cmd' = [cmd EXCEPT ![c] =
                 [StopReturn(c) EXCEPT !.removed = "stopped",
                                    !.rmAlive = Alive(cmd[c].pid)]]
    /\ UNCHANGED <<cfgVars, regVars, hist, qVars, envVars, proc, daemonVars, nCreated, nInvoked>>

\* cmd_stop lines 234-238: taskkill /F again, or SIGKILL; os.kill raises
\* OSError when the process is gone, and lines 243-245 exit with 1
StopForce(c) ==
    /\ cmd[c].pc = "stop_force"
    /\ LET pid == cmd[c].pid IN
       IF Alive(pid)
       THEN /\ proc' = [proc EXCEPT ![pid].sig = @ \cup {"kill"}]
            /\ cmd' = [cmd EXCEPT ![c].pc = "stop_force_remove",
                                  ![c].sent = Sent(c, "kill")]
       ELSE /\ proc' = proc
            /\ cmd' = [cmd EXCEPT ![c] =
                         IF platform = "win32"
                         THEN [@ EXCEPT !.pc = "stop_force_remove",
                                        !.sent = Sent(c, "kill")]
                         ELSE Done(c, 1)]
    /\ UNCHANGED <<cfgVars, regVars, hist, qVars, envVars, pidFile, daemonVars, nCreated, nInvoked>>

\* cmd_stop lines 240-241: the PID file is removed right after the kill
StopForceRemove(c) ==
    /\ cmd[c].pc = "stop_force_remove"
    /\ pidFile' = remove_pid_file(pidFile)
    /\ cmd' = [cmd EXCEPT ![c] =
                 [StopReturn(c) EXCEPT !.removed = "forced",
                                    !.rmAlive = Alive(cmd[c].pid)]]
    /\ UNCHANGED <<cfgVars, regVars, hist, qVars, envVars, proc, daemonVars, nCreated, nInvoked>>

\* cmd_status lines 266-269: no pid read, exit 3
StatusRead(c) ==
    /\ cmd[c].pc = "status_read"
    /\ LET pid == read_pid(pidFile) IN
       cmd' = [cmd EXCEPT ![c] =
                 IF pid # 0 THEN [@ EXCEPT !.pid = pid, !.pc = "status_probe"]
                 ELSE [Done(c, 3) EXCEPT !.pid = pid]]
    /\ UNCHANGED <<cfgVars, regVars, hist, qVars, envVars, pidFile, proc, daemonVars, nCreated, nInvoked>>

\* cmd_status treating every pid it read as stale
StatusProbeStale(c) ==
    /\ cmd[c].pc = "status_probe"
    /\ cmd' = [cmd EXCEPT ![c].pc = "status_purge", ![c].lastProbe = "dead"]
    /\ UNCHANGED <<cfgVars, regVars, hist, qVars, envVars, pidFile, proc, daemonVars, nCreated, nInvoked>>

\* cmd_status lines 271-275: exit 0 when the pid is alive
StatusProbe(c) ==
    /\ cmd[c].pc = "status_probe"
    /\ cmd' = [cmd EXCEPT ![c] =
                 IF is_process_running(cmd[c].pid)
                 THEN [Done(c, 0) EXCEPT !.lastProbe = "alive"]
                 ELSE [@ EXCEPT !.pc = "status_purge", !.lastProbe = "dead"]]
    /\ UNCHANGED <<cfgVars, regVars, hist, qVars, envVars, pidFile, proc, daemonVars, nCreated, nInvoked>>

\* cmd_status leaving the stale PID file where it is
StatusPurgeKept(c) ==
    /\ cmd[c].pc = "status_purge"
    /\ pidFile' = pidFile
    /\ cmd' = [cmd EXCEPT ![c] = Done(c, 3)]
    /\ UNCHANGED <<cfgVars, regVars, hist, qVars, envVars, proc, daemonVars, nCreated, nInvoked>>

\* cmd_status lines 276-277: the stale PID file is removed, exit 3
StatusPurge(c) ==
    /\ cmd[c].pc = "status_purge"
    /\ pidFile' = remove_pid_file(pidFile)
    /\ cmd' = [cmd EXCEPT ![c] = [Done(c, 3) EXCEPT !.removed = "stale"]]
    /\ UNCHANGED <<cfgVars, regVars, hist, qVars, envVars, proc, daemonVars, nCreated, nInvoked>>

\* cmd_restart line 256: pid = read_pid(); no pid means cmd_start at once
RestartRead(c) ==
    /\ cmd[c].pc = "restart_read"
    /\ LET pid == read_pid(pidFile) IN
       cmd' = [cmd EXCEPT ![c].pid = pid,
                          ![c].pc = IF pid # 0 THEN "restart_probe"
                                    ELSE "start_read"]
    /\ UNCHANGED <<cfgVars, regVars, hist, qVars, envVars, pidFile, proc, daemonVars, nCreated, nInvoked>>

\* cmd_restart lines 257-261: cmd_stop() is entered when the pid is alive,
\* otherwise cmd_start()
RestartProbe(c) ==
    /\ cmd[c].pc = "restart_probe"
    /\ cmd' = [cmd EXCEPT ![c] =
                 IF is_process_running(cmd[c].pid)
                 THEN [@ EXCEPT !.pc = "stop_read", !.lastProbe = "alive"]
                 ELSE [@ EXCEPT !.pc = "start_read", !.lastProbe = "dead"]]
    /\ UNCHANGED <<cfgVars, regVars, hist, qVars, envVars, pidFile, proc, daemonVars, nCreated, nInvoked>>

(***************************************************************************)
(* SpecSup: commands run by the operator, at any time and concurrently,    *)
(* and the daemon processes they launch.                                   *)
(***************************************************************************)
InitSup ==
    /\ qFolders = <<>>
    /\ qFile = <<>>
    /\ qResult = -1
    /\ platform \in {"posix", "win32"}
    /\ pidFile = 0
    /\ configExists \in BOOLEAN
    /\ config = SupConfig
    /\ proc = [p \in Pids |-> NoProc]
    /\ folders = [p \in Pids |-> <<>>]
    /\ plugins = [p \in Pids |-> {}]
    /\ observers = [p \in Pids |-> <<>>]
    /\ nCreated = 0
    /\ cmd = [c \in CmdIds |-> NoCmd]
    /\ nInvoked = 0
    /\ regPlugins = NoPlugins
    /\ regCall = NoCall
    /\ hist = <<>>
    /\ cfgEntries = <<>>
    /\ cfgResult = NoResult
    /\ cfgHanded = NoHanded

NextSup ==
    \/ \E c \in CmdIds :
        \/ \E fg \in BOOLEAN : Invoke(c, "start", fg)
        \/ Invoke(c, "stop", FALSE)
        \/ Invoke(c, "status", FALSE)
        \/ StartRead(c)
        \/ StartProbe(c)
        \/ StartPurge(c)
        \/ StartNoConfig(c)
        \/ StartLaunch(c)
        \/ ForegroundExit(c)
        \/ StartVerifyRead(c)
        \/ StartVerify(c)
        \/ StopRead(c)
        \/ StopProbe(c)
        \/ StopPurge(c)
        \/ StopSignal(c)
        \/ StopPoll(c)
        \/ StopRemove(c)
        \/ StopForce(c)
        \/ StopForceRemove(c)
        \/ StatusRead(c)
        \/ StatusProbe(c)
        \/ StatusPurge(c)
    \/ \E p \in Pids :
        \/ RunWritePid(p)
        \/ RunInstallHandlers(p)
        \/ RunConstruct(p)
        \/ RunStart(p)
        \/ RunDaemonError(p)
        \/ SignalHandler(p)
        \/ DefaultTerminate(p)
        \/ Killed(p)

SpecSup == InitSup /\ [][NextSup]_vars

(***************************************************************************)
(* Properties of the supervisor.                                           *)
(***************************************************************************)
\* C5: under every interleaving of start commands at most one daemon
\* instance is alive: no second daemon body begins while another is alive.
C5_SingleInstance ==
    \A p \in Pids : \A q \in Pids : Alive(p) /\ Alive(q) => p = q

\* C6: a start run while the PID file names a live daemon (and for as long as
\* that daemon lives) fails with AlreadyRunning, exit 1: it launches no
\* daemon body, and neither removes nor rewrites the PID record.
C6_SecondStartRefused ==
    \A c \in CmdIds :
        ( /\ cmd[c].kind = "start"
          /\ cmd[c].base # 0
          /\ Alive(cmd[c].base)
          /\ pidFile = cmd[c].base )
        => /\ cmd[c].pc \in {"start_read", "start_probe", "done"}
           /\ cmd[c].pc = "done" => cmd[c].exit = 1
           /\ cmd[c].child = 0
           /\ cmd[c].removed = "no"

\* C6 witness: the daemon runs with its PID record and a start run since
\* then has ended with exit 1.
C6_Witness ==
    \E c \in CmdIds :
        /\ cmd[c].kind = "start" /\ cmd[c].pc = "done" /\ cmd[c].exit = 1
        /\ cmd[c].base # 0
        /\ proc[cmd[c].base].pc = "running"
        /\ pidFile = cmd[c].base
        /\ cmd[c].child = 0

\* C7: stop with no PID file ends with exit 1 in the step that reads the
\* file: no signal is delivered, and the PID file, the processes and their
\* watchers are left as they were.
C7_StopWithoutPidFile ==
    [][\A c \in CmdIds :
          (cmd[c].pc = "stop_read" /\ pidFile = 0 /\ cmd'[c] # cmd[c])
          => /\ cmd'[c].pc = "done"
             /\ cmd'[c].exit = 1
             /\ cmd'[c].sent = <<>>
             /\ cmd'[c].removed = "no"
             /\ pidFile' = pidFile
             /\ proc' = proc
             /\ observers' = observers]_vars

\* C7 witness: a stop has ended with exit 1 having read no pid.
C7_Witness ==
    \E c \in CmdIds :
        /\ cmd[c].kind = "stop" /\ cmd[c].pc = "done" /\ cmd[c].exit = 1
        /\ cmd[c].pid = 0
        /\ cmd[c].sent = <<>>
        /\ pidFile = 0

\* C8: stop sends the graceful signal first, polls at most StopPolls times,
\* and sends the forceful signal only after all polls found the process
\* alive: never first, never while polls remain.
C8_GracefulThenForced ==
    \A c \in CmdIds :
        cmd[c].kind = "stop" =>
            LET s == cmd[c].sent IN
            /\ cmd[c].i <= StopPolls
            /\ Len(s) <= 2
            /\ Len(s) >= 1 => s[1].sig = "term" /\ s[1].polls = 0
            /\ Len(s) = 2 => s[2].sig = "kill" /\ s[2].polls = StopPolls

\* C9: stop removes the PID record only after a liveness probe has answered
\* that the process is gone, and never while the process is alive.
C9_RemovedOnlyWhenConfirmed ==
    \A c \in CmdIds :
        (cmd[c].kind = "stop" /\ cmd[c].removed \in {"stopped", "forced"})
        => cmd[c].lastProbe = "dead" /\ ~cmd[c].rmAlive

(***************************************************************************)
(* SpecReg: calls on one PluginManager.                                    *)
(***************************************************************************)
othersIdle ==
    /\ qFolders = <<>>
    /\ qFile = <<>>
    /\ qResult = -1
    /\ platform = "posix"
    /\ pidFile = 0
    /\ configExists = TRUE
    /\ config = <<>>
    /\ proc = [p \in Pids |-> NoProc]
    /\ folders = [p \in Pids |-> <<>>]
    /\ plugins = [p \in Pids |-> {}]
    /\ observers = [p \in Pids |-> <<>>]
    /\ nCreated = 0
    /\ cmd = [c \in CmdIds |-> NoCmd]
    /\ nInvoked = 0
    /\ hist = <<>>
    /\ cfgEntries = <<>>
    /\ cfgResult = NoResult
    /\ cfgHanded = NoHanded

InitReg ==
    /\ othersIdle
    /\ regPlugins = NoPlugins
    /\ regCall = NoCall

\* a caller registers one plugin class
RegisterPlugin(plugin_class) ==
    /\ LET r == register_plugin(regPlugins, plugin_class) IN
        /\ regPlugins' = r.plugins
        /\ regCall' = [NoCall EXCEPT !.op = "register_plugin",
                                     !.class = plugin_class,
                                     !.before = regPlugins,
                                     !.raised = r.raised]
    /\ UNCHANGED <<cfgVars, hist, qVars, envVars, pidFile, proc, daemonVars, nCreated,
                   cmd, nInvoked>>

\* load_plugins line 79: discover_plugins on a package
DiscoverPlugins(package) ==
    /\ regPlugins' = discover_plugins(regPlugins, package)
    /\ regCall' = [NoCall EXCEPT !.op = "discover_plugins",
                                 !.package = package,
                                 !.before = regPlugins]
    /\ UNCHANGED <<cfgVars, hist, qVars, envVars, pidFile, proc, daemonVars, nCreated,
                   cmd, nInvoked>>

\* load_plugins line 80: discover_external_plugins on the entry-point group
DiscoverExternalPlugins(entries) ==
    /\ regPlugins' = discover_external_plugins(regPlugins, entries)
    /\ regCall' = [NoCall EXCEPT !.op = "discover_external_plugins",
                                 !.entries = entries,
                                 !.before = regPlugins]
    /\ UNCHANGED <<cfgVars, hist, qVars, envVars, pidFile, proc, daemonVars, nCreated,
                   cmd, nInvoked>>

NextReg ==
    \/ \E c \in PluginClasses : RegisterPlugin(c)
    \/ \E k \in Packages : DiscoverPlugins(k)
    \/ \E g \in EntryGroups : DiscoverExternalPlugins(g)

SpecReg == InitReg /\ [][NextReg]_vars

(***************************************************************************)
(* Properties of the plugin registry.                                      *)
(***************************************************************************)
\* C11: register_plugin of a class whose name is already in the registry
\* raises the conflict error (ValueError) and leaves the registry as it was:
\* the same names, and under the conflicting name the same class as before.
C11_ConflictLeavesRegistry ==
    ( /\ regCall.op = "register_plugin"
      /\ regCall.class.init = "ok"
      /\ regCall.before[regCall.class.name] # 0 )
    => /\ regCall.raised = "ValueError"
       /\ regPlugins = regCall.before

\* C11 witness: a second class with a registered name was refused and the
\* first class is still the one stored under that name.
C11_Witness ==
    /\ regCall.op = "register_plugin"
    /\ regCall.raised = "ValueError"
    /\ regCall.before[regCall.class.name] \notin {0, regCall.class.cls}
    /\ regPlugins[regCall.class.name] = regCall.before[regCall.class.name]

\* the classes a discovery call was given, as <<position, class>> pairs:
\* those of the importable modules of the package, or those of the entry
\* points that load
Candidates ==
    IF regCall.op = "discover_plugins"
    THEN LET mods == regCall.package.modules IN
         UNION { {<<<<m, i>>, mods[m].classes[i]>> :
                     i \in 1..Len(mods[m].classes)} :
                 m \in {n \in 1..Len(mods) : mods[n].import = "ok"} }
    ELSE IF regCall.op = "discover_external_plugins"
    THEN {<<<<1, i>>, regCall.entries[i].class>> :
             i \in {j \in 1..Len(regCall.entries) : regCall.entries[j].load = "ok"}}
    ELSE {}

\* a candidate that can be registered whatever the others do: its
\* constructor returns and neither the registry nor another candidate of
\* the call holds its name
ValidCandidate(k) ==
    /\ k[2].init = "ok"
    /\ regCall.before[k[2].name] = 0
    /\ \A o \in Candidates : o[2].name = k[2].name => o[1] = k[1]

\* C12: discovery is best-effort per candidate: after discover_plugins or
\* discover_external_plugins every valid candidate of the call is
\* registered, also one that comes after a failing candidate of the same
\* module or entry-point group.
C12_DiscoveryBestEffort ==
    \A k \in Candidates : ValidCandidate(k) => regPlugins[k[2].name] = k[2].cls

(***************************************************************************)
(* States the supervisor can be found in when a command is run: no PID     *)
(* file; a PID file that does not hold a number; the PID file of a daemon  *)
(* that is gone; a PID file whose pid now belongs to a process of another  *)
(* user; a running daemon with its PID file.                               *)
(***************************************************************************)
SupStates == {"none", "garbage", "stale", "foreign", "reused", "live"}

\* the observers of a daemon after FileMonitorDaemon.start
started_observers(flds) ==
    LET obs == setup_observers(flds) IN
    [w \in 1..Len(obs) |-> [obs[w] EXCEPT !.st = "started"]]

InitSupState(k) ==
    /\ qFolders = <<>>
    /\ qFile = <<>>
    /\ qResult = -1
    /\ platform \in {"posix", "win32"}
    /\ configExists \in BOOLEAN
    /\ config = SupConfig
    /\ pidFile = CASE k = "none" -> 0
                   [] k = "garbage" -> -1
                   [] OTHER -> 1
    /\ proc = [p \in Pids |->
                 IF p # 1 THEN NoProc
                 ELSE CASE k = "stale" -> [pc |-> "exited", sig |-> {}, exit |-> -9]
                        [] k = "foreign" -> [NoProc EXCEPT !.pc = "foreign"]
                        [] k = "reused" -> [NoProc EXCEPT !.pc = "other"]
                        [] k = "live" -> [NoProc EXCEPT !.pc = "running"]
                        [] OTHER -> NoProc]
    /\ folders = [p \in Pids |-> IF k = "live" /\ p = 1 THEN SupConfig ELSE <<>>]
    /\ plugins = [p \in Pids |-> IF k = "live" /\ p = 1 THEN InstalledPlugins ELSE {}]
    /\ observers = [p \in Pids |-> IF k = "live" /\ p = 1
                                   THEN started_observers(SupConfig) ELSE <<>>]
    /\ nCreated = 0
    /\ cmd = [c \in CmdIds |-> NoCmd]
    /\ nInvoked = 0
    /\ regPlugins = NoPlugins
    /\ regCall = NoCall
    /\ hist = <<>>
    /\ cfgEntries = <<>>
    /\ cfgResult = NoResult
    /\ cfgHanded = NoHanded

(***************************************************************************)
(* SpecSeq: the operator runs start, status, stop, status, each command    *)
(* after the one before it has returned.                                   *)
(***************************************************************************)
Script == <<"start", "status", "stop", "status">>

InitSeq == \E k \in SupStates : InitSupState(k)

\* the next command of the script is run once the one before has returned
ScriptStep(fg) ==
    /\ nInvoked < Len(Script)
    /\ ~Busy(1)
    /\ fg => Script[nInvoked + 1] = "start"
    /\ nInvoked' = nInvoked + 1
    /\ hist' = IF cmd[1].pc = "done" THEN Append(hist, cmd[1]) ELSE hist
    /\ cmd' = [cmd EXCEPT ![1] =
                 [NoCmd EXCEPT !.kind = Script[nInvoked + 1], !.fg = fg,
                    !.pc = Script[nInvoked + 1] \o "_read",
                    !.base = IF is_process_running(read_pid(pidFile))
                             THEN read_pid(pidFile) ELSE 0]]
    /\ UNCHANGED <<cfgVars, regVars, qVars, envVars, pidFile, proc, daemonVars, nCreated>>

NextSeq ==
    \/ \E fg \in BOOLEAN : ScriptStep(fg)
    \/ \E c \in CmdIds :
        \/ StartRead(c)
        \/ StartProbe(c)
        \/ StartPurge(c)
        \/ StartNoConfig(c)
        \/ StartLaunch(c)
        \/ ForegroundExit(c)
        \/ StartVerifyRead(c)
        \/ StartVerify(c)
        \/ StopRead(c)
        \/ StopProbe(c)
        \/ StopPurge(c)
        \/ StopSignal(c)
        \/ StopPoll(c)
        \/ StopRemove(c)
        \/ StopForce(c)
        \/ StopForceRemove(c)
        \/ StatusRead(c)
        \/ StatusProbe(c)
        \/ StatusPurge(c)
    \/ \E p \in Pids :
        \/ RunWritePid(p)
        \/ RunInstallHandlers(p)
        \/ RunConstruct(p)
        \/ RunStart(p)
        \/ RunDaemonError(p)
        \/ SignalHandler(p)
        \/ DefaultTerminate(p)
        \/ KeyboardInterrupt(p)
        \/ Killed(p)
        \/ \E s \in {"term", "int"} : EnvSignal(p, s)

SpecSeq == InitSeq /\ [][NextSeq]_vars

\* C13: in the script start, status, stop, status, the status run after a
\* successful start, while the daemon it started is alive, ends with exit 0
\* (Running), and the status run after stop has returned ends with exit 3
\* (NotRunning).
C13_StatusAfterStartAndStop ==
    (cmd[1].kind = "status" /\ cmd[1].pc = "done" /\ hist # <<>>
        /\ hist[1].kind = "start" /\ hist[1].exit = 0) =>
        /\ cmd[1].exit \in {0, 3}
        /\ (nInvoked = 2 /\ hist[1].child # 0 /\ Alive(hist[1].child))
               => cmd[1].exit = 0
        /\ nInvoked = 4 => cmd[1].exit = 3

\* C13 witness: the whole script has run: start succeeded in the background,
\* the first status said Running, stop succeeded, the second status said
\* NotRunning.
C13_Witness ==
    /\ nInvoked = 4
    /\ cmd[1].kind = "status" /\ cmd[1].pc = "done" /\ cmd[1].exit = 3
    /\ Len(hist) = 3
    /\ hist[1].kind = "start" /\ hist[1].exit = 0 /\ ~hist[1].fg
    /\ hist[2].kind = "status" /\ hist[2].exit = 0
    /\ hist[3].kind = "stop" /\ hist[3].exit = 0

(***************************************************************************)
(* SpecOne: one command, of any kind, run from every state of the          *)
(* supervisor, while the daemon goes its own way and may be signalled.     *)
(***************************************************************************)
InitOne == \E k \in SupStates : InitSupState(k)

\* the operator runs the command
RunOne(kind, fg) ==
    /\ nInvoked = 0
    /\ Invoke(1, kind, fg)

NextOne ==
    \/ \E fg \in BOOLEAN : RunOne("start", fg)
    \/ RunOne("stop", FALSE)
    \/ RunOne("status", FALSE)
    \/ RunOne("restart", FALSE)
    \/ \E c \in CmdIds :
        \/ StartRead(c)
        \/ StartProbe(c)
        \/ StartPurge(c)
        \/ StartNoConfig(c)
        \/ StartLaunch(c)
        \/ ForegroundExit(c)
        \/ StartVerifyRead(c)
        \/ StartVerify(c)
        \/ StopRead(c)
        \/ StopProbe(c)
        \/ StopPurge(c)
        \/ StopSignal(c)
        \/ StopPoll(c)
        \/ StopRemove(c)
        \/ StopForce(c)
        \/ StopForceRemove(c)
        \/ StatusRead(c)
        \/ StatusProbe(c)
        \/ StatusPurge(c)
        \/ RestartRead(c)
        \/ RestartProbe(c)
    \/ \E p \in Pids :
        \/ RunWritePid(p)
        \/ RunInstallHandlers(p)
        \/ RunConstruct(p)
        \/ RunStart(p)
        \/ RunDaemonError(p)
        \/ SignalHandler(p)
        \/ DefaultTerminate(p)
        \/ KeyboardInterrupt(p)
        \/ Killed(p)
        \/ \E s \in {"term", "int"} : EnvSignal(p, s)

SpecOne == InitOne /\ [][NextOne]_vars

(***************************************************************************)
(* Properties of one command run from every supervisor state.              *)
(***************************************************************************)
\* the PID file holds the pid of a process that is alive
NamesLiveProcess(pf) == pf \in Pids /\ Alive(pf)

\* C14: status ends with exit 0 if and only if, when it ends, the PID file
\* exists and names a live process; in every other state (no PID file,
\* unreadable PID file, pid of a dead process) it ends with exit 3.
C14_StatusExitCode ==
    [][\A c \in CmdIds :
          (cmd[c].kind = "status" /\ cmd[c].pc # "done" /\ cmd'[c].pc = "done")
          => cmd'[c].exit = IF NamesLiveProcess(pidFile) THEN 0 ELSE 3]_vars

\* where a restart is inside cmd_start
StartPcs == {"start_read", "start_probe", "start_purge", "start_launch",
             "start_wait", "start_verify", "foreground"}

\* the process is gone, or SIGKILL has been delivered to it
Stopped(p) == ~Alive(p) \/ "kill" \in proc[p].sig

\* C15: restart is stop() with a not-running outcome ignored, then start():
\* from every state restart goes on to cmd_start and ends only there, and a
\* daemon that was live has been stopped when the new one is launched.
C15_RestartStopsThenStarts ==
    [][\A c \in CmdIds :
          cmd[c].kind = "restart" =>
             /\ (cmd[c].pc # "done" /\ cmd'[c].pc = "done")
                    => cmd[c].pc \in StartPcs
             /\ (cmd[c].child = 0 /\ cmd'[c].child # 0 /\ cmd[c].base # 0)
                    => Stopped(cmd[c].base)]_vars

\* C16: when status or start has read a PID record whose process is not
\* alive, its next step is the purge and nothing else: the purge removes the
\* PID file, status then ends with exit 3, and start launches the daemon
\* (which writes the new record) only after the purge.
C16_StalePurgedFirst ==
    [][\A c \in CmdIds :
          (cmd[c].kind \in {"status", "start"} /\ cmd'[c] # cmd[c]) =>
             /\ (cmd[c].pc \in {"status_probe", "start_probe"}
                   /\ ~NamesLiveProcess(cmd[c].pid))
                  => /\ cmd'[c].pc = cmd[c].kind \o "_purge"
                     /\ pidFile' = pidFile /\ proc' = proc
             /\ cmd[c].pc = "status_purge"
                  => /\ pidFile' = 0
                     /\ cmd'[c].pc = "done" /\ cmd'[c].exit = 3
             /\ cmd[c].pc = "start_purge"
                  => /\ pidFile' = 0 /\ proc' = proc
                     /\ cmd'[c].pc = "start_launch" /\ cmd'[c].child = 0
             /\ (cmd[c].pc = "start_launch" /\ cmd[c].pid # 0
                   /\ cmd'[c].child # 0)
                  => cmd[c].removed = "stale" /\ pidFile = 0]_vars

\* C16 witness: start read the record of a dead process, purged it, and the
\* daemon it launched has written the new record.
C16_Witness ==
    \E c \in CmdIds :
        /\ cmd[c].kind = "start" /\ cmd[c].removed = "stale"
        /\ cmd[c].child # 0 /\ pidFile = cmd[c].child
        /\ \E p \in Pids : p # cmd[c].child /\ proc[p].pc = "exited"

\* C17: stop on a PID file that names a process that is not alive goes to
\* the purge without signalling anything, removes the PID file and ends
\* with a non-zero exit code.
C17_StopOnStaleRecord ==
    [][\A c \in CmdIds :
          (cmd[c].kind = "stop" /\ cmd'[c] # cmd[c]) =>
             /\ (cmd[c].pc = "stop_probe" /\ ~NamesLiveProcess(cmd[c].pid))
                  => /\ cmd'[c].pc = "stop_purge"
                     /\ cmd'[c].sent = <<>>
                     /\ pidFile' = pidFile /\ proc' = proc
             /\ cmd[c].pc = "stop_purge"
                  => /\ pidFile' = 0
                     /\ cmd'[c].pc = "done" /\ cmd'[c].exit > 0
                     /\ cmd'[c].sent = <<>>
                     /\ proc' = proc]_vars

\* C17 witness: a stop that read the pid of a dead process has ended with
\* exit 1, the PID file is gone and no signal was sent.
C17_Witness ==
    \E c \in CmdIds :
        /\ cmd[c].kind = "stop" /\ cmd[c].pc = "done" /\ cmd[c].exit = 1
        /\ cmd[c].pid \in Pids /\ proc[cmd[c].pid].pc = "exited"
        /\ cmd[c].removed = "stale" /\ cmd[c].sent = <<>>
        /\ pidFile = 0

(***************************************************************************)
(* SpecDispatch: one daemon instance that is left running: it starts up,   *)
(* files are created and its observer threads dispatch them; no signal     *)
(* arrives.                                                                *)
(***************************************************************************)
NextDispatch ==
    \/ \E p \in Pids :
        \/ RunWritePid(p)
        \/ RunInstallHandlers(p)
        \/ RunConstruct(p)
        \/ RunStart(p)
        \/ RunDaemonError(p)
        \/ \E w \in WatcherIds :
            \/ OnCreated(p, w)
            \/ PluginProcess(p, w)
            \/ PluginOnError(p, w)
    \/ \E ev \in Creations : FileCreated(ev)

SpecDispatch == InitDaemon /\ [][NextDispatch]_vars

(***************************************************************************)
(* Properties of the dispatcher: which events reach a plugin.              *)
(***************************************************************************)
\* the operations of a plugin that the dispatcher calls
PluginOps == {"can_handle", "process", "on_error"}

\* the reasons for which the dispatcher drops an event without any call
SkipOps == {"directory", "no_rule", "no_plugin"}

\* the event path denotes a directory that was created
DenotesDirectory(path) ==
    \E ev \in Creations : ev.is_directory /\ ev.path = resolve(path)

\* the plugin named by the rule that get_folder_config returns, "" if none
MatchedPlugin(p, path) ==
    LET fc == get_folder_config(folders[p], path) IN
    IF fc = 0 THEN "" ELSE folders[p][fc].plugin

\* C18: when the rule matched for an event names a plugin that is not
\* registered, the step that takes the event logs "plugin not found" and
\* nothing else: no plugin operation is called, nothing is raised, the
\* observer thread stays started and idle for the events after it, and the
\* daemon process is left as it is.
C18_UnknownPluginSkipped ==
    [][\A p \in Pids : \A w \in WatcherIds :
          ( /\ w \in 1..Len(observers[p])
            /\ w \in 1..Len(observers'[p])
            /\ observers[p][w].queue # <<>>
            /\ observers'[p][w].queue = Tail(observers[p][w].queue)
            /\ observers'[p][w].log # observers[p][w].log
            /\ ~Head(observers[p][w].queue).is_directory
            /\ MatchedPlugin(p, Head(observers[p][w].queue).src_path) # ""
            /\ MatchedPlugin(p, Head(observers[p][w].queue).src_path)
                   \notin plugins[p] )
          => LET o == observers[p][w]
                 ev == Head(o.queue)
             IN /\ observers'[p][w] =
                     [o EXCEPT !.queue = Tail(@),
                               !.log = Append(@, LogEntry("no_plugin",
                                    MatchedPlugin(p, ev.src_path), ev.src_path, ""))]
                /\ observers'[p][w].st = "started"
                /\ observers'[p][w].pc = "idle"
                /\ proc' = proc]_vars

\* C18 witness: an observer dropped an event for an unregistered plugin and
\* dispatched a later event to a registered one.
C18_Witness ==
    \E p \in Pids : \E w \in 1..Len(observers[p]) :
        LET log == observers[p][w].log IN
        \E i \in 1..Len(log) : \E j \in 1..Len(log) :
            /\ i < j
            /\ log[i].op = "no_plugin" /\ log[i].plugin \notin plugins[p]
            /\ log[j].op = "process"
            /\ Alive(p)

\* C19: plugin.process is called for an event only after, in this order,
\* the event was found not to be a directory, get_folder_config returned a
\* rule, the rule's plugin was found in the registry and its can_handle
\* answered true; an event failing one of the tests is dropped with the
\* first failing test as the reason, without a call of process and without
\* anything raised (the observer thread is ended only by a call that raises).
C19_ProcessOnlyAfterChecks ==
    \A p \in Pids : \A w \in 1..Len(observers[p]) :
        LET o == observers[p][w]
            log == o.log
        IN  /\ \A i \in 1..Len(log) :
                 /\ log[i].op = "process" =>
                      /\ i > 1
                      /\ log[i - 1] = LogEntry("can_handle", log[i].plugin,
                                               log[i].path, "true")
                 /\ log[i].op = "can_handle" =>
                      /\ ~DenotesDirectory(log[i].path)
                      /\ MatchedPlugin(p, log[i].path) = log[i].plugin
                      /\ log[i].plugin \in plugins[p]
                      /\ log[i].result = "false" =>
                            (i = Len(log) \/ log[i + 1].op \notin {"process", "on_error"})
                 /\ log[i].op = "no_plugin" =>
                      /\ ~DenotesDirectory(log[i].path)
                      /\ MatchedPlugin(p, log[i].path) # ""
                      /\ MatchedPlugin(p, log[i].path) \notin plugins[p]
                 /\ log[i].op = "no_rule" =>
                      /\ ~DenotesDirectory(log[i].path)
                      /\ MatchedPlugin(p, log[i].path) = ""
                 /\ log[i].op = "directory" => DenotesDirectory(log[i].path)
            /\ o.pc = "process" =>
                 /\ log # <<>>
                 /\ log[Len(log)] = LogEntry("can_handle", o.plugin, o.cur, "true")
            /\ o.st = "crashed" =>
                 /\ log # <<>>
                 /\ log[Len(log)].result = "raise"
                 /\ log[Len(log)].op \in PluginOps

\* C19 witness: one observer dropped an event because can_handle answered
\* false and passed a later one on to process.
C19_Witness ==
    \E p \in Pids : \E w \in 1..Len(observers[p]) :
        LET log == observers[p][w].log IN
        /\ Len(log) = 3
        /\ log[1].op = "can_handle" /\ log[1].result = "false"
        /\ log[2].op = "can_handle" /\ log[2].result = "true"
        /\ log[3].op = "process"
        /\ observers[p][w].st = "started"

\* the rule of the example: /watch, not recursive, .jpg, plugin noop
WatchJpgRule ==
    [path |-> <<"watch">>, recursive |-> FALSE,
     extensions |-> <<".jpg">>, plugin |-> "noop"]

\* C20: with the single rule {/watch, recursive false, [.jpg], noop} and
\* its watcher, only /watch/a.jpg ever reaches a plugin, and only noop:
\* each /watch/a.jpg created is handed to noop once (one can_handle, and one
\* process when it answers true); /watch/a.png and /watch/sub/a.jpg lead to
\* no call of any plugin.
C20_OnlyJpgInWatchDispatched ==
    \A p \in Pids :
        (folders[p] = <<WatchJpgRule>> /\ proc[p].pc \in {"running", "exited"}) =>
            /\ Len(observers[p]) = 1
            /\ LET o == observers[p][1]
                   log == o.log
                   taken == Cardinality({i \in 1..Len(log) :
                                log[i].op \in SkipOps \cup {"can_handle"}})
               IN /\ \A i \in 1..Len(log) :
                       log[i].op \in PluginOps =>
                          /\ log[i].path = <<"watch", "a.jpg">>
                          /\ log[i].plugin = "noop"
                  /\ \A i \in 1..Len(log) :
                       log[i].path = <<"watch", "a.jpg">> => log[i].op \in PluginOps
                  /\ taken + Len(o.queue) <= nCreated
                  /\ Count(log, "process", "") =
                       Count(log, "can_handle", "true")
                         - (IF o.pc = "process" THEN 1 ELSE 0)

\* C20 witness: /watch/a.png was dropped and /watch/a.jpg was processed by
\* noop exactly once.
C20_Witness ==
    \E p \in Pids :
        /\ folders[p] = <<WatchJpgRule>>
        /\ Len(observers[p]) = 1
        /\ LET log == observers[p][1].log IN
            /\ Count(log, "process", "") = 1
            /\ \E i \in 1..Len(log) :
                  log[i] = LogEntry("no_rule", "", <<"watch", "a.png">>, "")
            /\ \E i \in 1..Len(log) :
                  /\ log[i].op = "process" /\ log[i].plugin = "noop"
                  /\ log[i].path = <<"watch", "a.jpg">>

(***************************************************************************)
(* SpecLoad: every bounded "folders" list parsed by either reader, then    *)
(* files matched against the loaded rules.                                 *)
(***************************************************************************)
\* the files created while the loaded rules are in force
LoadFiles == { <<"watch", "a.jpg">>, <<"watch", "a.png">>,
               <<"watch", "sub", "a.png">>, <<"watch", "sub", "a.jpg">>,
               <<"sub", "a.jpg">> }

InitLoad ==
    /\ qFolders = <<>>
    /\ qFile = <<>>
    /\ qResult = -1
    /\ platform = "posix"
    /\ pidFile = 0
    /\ configExists = TRUE
    /\ config = <<>>
    /\ proc = [p \in Pids |-> NoProc]
    /\ folders = [p \in Pids |-> <<>>]
    /\ plugins = [p \in Pids |-> {}]
    /\ observers = [p \in Pids |-> <<>>]
    /\ nCreated = 0
    /\ cmd = [c \in CmdIds |-> NoCmd]
    /\ nInvoked = 0
    /\ hist = <<>>
    /\ regPlugins = NoPlugins
    /\ regCall = NoCall
    /\ cfgEntries \in EntryLists
    /\ cfgResult = NoResult
    /\ cfgHanded = NoHanded

loadRest == <<qVars, envVars, pidFile, proc, daemonVars, nCreated, cmd,
              nInvoked, regVars, hist>>

\* ConfigReader._load_config of hump_yard reaching _parse_config
ParseConfig ==
    /\ cfgResult' = parse_config(cfgEntries)
    /\ cfgHanded' = NoHanded
    /\ UNCHANGED <<cfgEntries, loadRest>>

\* ConfigReader._load_config of file_monitor reaching _parse_config
FmParseConfig ==
    /\ cfgResult' = fm_parse_config(cfgEntries)
    /\ cfgHanded' = NoHanded
    /\ UNCHANGED <<cfgEntries, loadRest>>

\* process_file as far as the configuration goes: the plugin_config of the
\* rule get_folder_config returns is the second argument of plugin.process.
ProcessFile(file) ==
    /\ cfgResult.reader # "none"
    /\ LET fc == get_folder_config(cfgResult.folders, file) IN
         /\ fc # 0
         /\ cfgHanded' = [file |-> file, rule |-> fc,
                          config |-> cfgResult.folders[fc].plugin_config]
    /\ UNCHANGED <<cfgEntries, cfgResult, loadRest>>

NextLoad ==
    \/ ParseConfig
    \/ FmParseConfig
    \/ \E file \in LoadFiles : ProcessFile(file)

SpecLoad == InitLoad /\ [][NextLoad]_vars

\* the entries of data that carry every key of keys, in their order
Carrying(data, keys) == SelectSeq(data, LAMBDA e : keys \subseteq e.has)

\* the rule each entry of data builds, in their order
RulesOf(data) == [i \in 1..Len(data) |-> FolderConfig(data[i])]

\* C21: after hump_yard's load the rule set is exactly the rules of the
\* entries that carry both "path" and "plugin", in their declared order:
\* an entry missing either contributes nothing, and the entries after it
\* are still loaded.
C21_KeepsCompleteEntries ==
    cfgResult.reader = "hump_yard" =>
        cfgResult.folders = RulesOf(Carrying(cfgEntries, {"path", "plugin"}))

\* an entry without "plugin" was dropped and the complete entry after it
\* was loaded
C21_Witness ==
    /\ cfgResult.reader = "hump_yard"
    /\ Len(cfgEntries) = 2
    /\ "plugin" \notin cfgEntries[1].has
    /\ {"path", "plugin"} \subseteq cfgEntries[2].has
    /\ Len(cfgResult.folders) = 1
    /\ cfgResult.errors = <<1>>

\* C22: a configuration error never stops the daemon outright: a start
\* that has found no daemon running goes on to launch the daemon whether
\* or not the configuration file is there; it never ends at that point
\* without a daemon.
C22_StartDespiteConfigError ==
    [][\A c \in CmdIds :
          (cmd[c].kind = "start" /\ cmd[c].pc = "start_launch"
             /\ cmd'[c] # cmd[c])
          => cmd'[c].child # 0]_vars

\* the same string with the letters of the other case
swapcase(s) ==
    CASE s = ".jpg" -> ".JPG"
      [] s = ".JPG" -> ".jpg"
      [] s = ".png" -> ".PNG"
      [] s = ".PNG" -> ".png"
      [] s = "a.jpg" -> "a.JPG"
      [] s = "a.JPG" -> "a.jpg"
      [] s = "a.png" -> "a.PNG"
      [] OTHER -> s

\* the file with the letter case of its extension changed
FileRecased(file) == [file EXCEPT ![Len(file)] = swapcase(@)]

\* the rule with the letter case of its k-th extension changed
RuleRecased(fc, k) == [fc EXCEPT !.extensions[k] = swapcase(@)]

\* the extension in lower case, spelled out
LowerCased(s) == IF s \in {".jpg", ".JPG"} THEN ".jpg"
                 ELSE IF s \in {".png", ".PNG"} THEN ".png" ELSE s

\* C23: a rule's filter accepts the file iff its extension set is empty or
\* the lower-cased suffix of the file equals the lower-cased form of a
\* member; changing the letter case of the file's extension or of a
\* configured extension never changes the answer.
C23_FilterIgnoresCase ==
    (qResult # -1 /\ qFile # <<>>) =>
        \A i \in 1..Len(qFolders) :
           LET fc == qFolders[i]
               answer == should_process_file(fc, resolve(qFile))
           IN /\ qResult = i => answer
              /\ answer <=> (\/ fc.extensions = <<>>
                             \/ \E k \in 1..Len(fc.extensions) :
                                   LowerCased(suffix(resolve(qFile)))
                                      = LowerCased(fc.extensions[k]))
              /\ should_process_file(fc, FileRecased(resolve(qFile))) = answer
              /\ \A k \in 1..Len(fc.extensions) :
                    should_process_file(RuleRecased(fc, k), resolve(qFile))
                       = answer

\* a file whose extension differs from the configured one only in letter
\* case was matched by that rule
C23_Witness ==
    /\ qResult = 1
    /\ qFolders[1].extensions = <<".JPG">>
    /\ suffix(resolve(qFile)) = ".jpg"

\* the liveness probe of pid is answered with permission denied: the
\* process is alive and belongs to another user
PermissionDenied(pid) == pid \in Pids /\ proc[pid].pc = "foreign"

\* C24: permission denied counts as alive: when the probe of the recorded
\* pid is answered with permission denied, status ends reporting Running
\* (exit 0) and start ends reporting AlreadyRunning (exit 1).
C24_PermissionDeniedIsAlive ==
    [][\A c \in CmdIds :
          (cmd[c].pc \in {"status_probe", "start_probe"}
             /\ PermissionDenied(cmd[c].pid) /\ cmd'[c] # cmd[c])
          => /\ cmd'[c].pc = "done"
             /\ cmd'[c].lastProbe = "alive"
             /\ cmd'[c].exit = IF cmd[c].kind = "status" THEN 0 ELSE 1]_vars

\* start was refused because a daemon is running
AlreadyRunning(c) ==
    cmd[c].kind = "start" /\ cmd[c].child = 0 /\ cmd[c].lastProbe = "alive"

\* stop found no running daemon to signal
NotRunning(c) == cmd[c].kind = "stop" /\ cmd[c].sent = <<>>

\* the daemon was still alive at the last poll of stop's graceful window
StopTimeout(c) ==
    cmd[c].kind = "stop" /\ cmd[c].i = StopPolls /\ cmd[c].lastProbe = "alive"

\* C25: every supervisor error ends the command with a non-zero exit code:
\* AlreadyRunning on start, NotRunning on stop, and stop-timeout on stop.
C25_SupervisorErrorsExitNonZero ==
    \A c \in CmdIds :
       (cmd[c].pc = "done"
          /\ (AlreadyRunning(c) \/ NotRunning(c) \/ StopTimeout(c)))
       => cmd[c].exit # 0

\* the entry has a path and a plugin name and neither is the empty string
NonEmptyRequired(e) ==
    /\ {"path", "plugin"} \subseteq e.has
    /\ e.path # ""
    /\ e.plugin # ""

\* C26: every loaded rule has a non-empty path and a non-empty plugin name:
\* only the entries whose path and plugin are both present and non-empty
\* contribute rules, so no rule has an empty plugin name and there are no
\* more rules than such entries.
C26_RequiredFieldsNonEmpty ==
    cfgResult.reader # "none" =>
        /\ \A i \in 1..Len(cfgResult.folders) : cfgResult.folders[i].plugin # ""
        /\ Len(cfgResult.folders)
              <= Len(SelectSeq(cfgEntries, NonEmptyRequired))

\* the entry is documentation: its path begins with the placeholder
\* marker, or it carries nothing but a comment
Documentation(e) ==
    \/ "path" \in e.has /\ e.path = PlaceholderPath
    \/ e.has = {"_comment"}

\* C27: entries whose path begins with the placeholder marker, or that
\* carry only a comment, are never added to the rule set and cause no
\* error, and the other entries are loaded as if those entries were not in
\* the list.
C27_DocumentationSkipped ==
    cfgResult.reader = "file_monitor" =>
        /\ \A i \in 1..Len(cfgResult.folders) :
              cfgResult.folders[i].path # Path(PlaceholderPath)
        /\ \A k \in 1..Len(cfgResult.errors) :
              ~Documentation(cfgEntries[cfgResult.errors[k]])
        /\ cfgResult.folders =
              fm_parse_config(SelectSeq(cfgEntries,
                                 LAMBDA e : ~Documentation(e))).folders

\* a placeholder entry or a comment was skipped without an error and the
\* entry after it was loaded
C27_Witness ==
    /\ cfgResult.reader = "file_monitor"
    /\ Len(cfgEntries) = 2
    /\ Documentation(cfgEntries[1])
    /\ cfgEntries[2].has = {"path", "plugin"}
    /\ cfgResult.folders = <<FolderConfig(cfgEntries[2])>>
    /\ cfgResult.errors = <<>>

\* the entries the rules of cfgResult were built from, in their order
LoadedEntries ==
    SelectSeq(cfgEntries,
              LAMBDA e : /\ {"path", "plugin"} \subseteq e.has
                         /\ cfgResult.reader = "file_monitor" => ~is_example(e))

\* C28: the configuration handed to plugin.process is exactly the matched
\* entry's keys other than path, recursive, extensions and plugin, with
\* their values unchanged; the rule has recursive false and extensions
\* .tiff, .tif, .jpg when the entry has no such key, and neither key is in
\* the plugin configuration.
C28_PluginConfigIsTheRest ==
    cfgHanded.rule # 0 =>
        LET e == LoadedEntries[cfgHanded.rule]
            fc == cfgResult.folders[cfgHanded.rule]
        IN /\ cfgHanded.config.has
                 = {k \in e.has : k \notin {"path", "recursive",
                                            "extensions", "plugin"}}
           /\ "_comment" \in e.has => cfgHanded.config.comment = e.comment
           /\ "quality" \in e.has => cfgHanded.config.quality = e.quality
           /\ "recursive" \notin e.has => fc.recursive = FALSE
           /\ "extensions" \notin e.has
                 => fc.extensions = <<".tiff", ".tif", ".jpg">>
           /\ "recursive" \in e.has => fc.recursive = e.recursive
           /\ "extensions" \in e.has => fc.extensions = e.extensions

\* a file was matched by a rule built from an entry with extra keys and
\* without recursive and extensions
C28_Witness ==
    /\ cfgHanded.rule # 0
    /\ cfgHanded.config.has = {"_comment", "quality"}
    /\ cfgHanded.config.quality = "75"
    /\ cfgResult.folders[cfgHanded.rule].extensions = <<".tiff", ".tif", ".jpg">>
    /\ ~cfgResult.folders[cfgHanded.rule].recursive

\* SIGTERM or SIGINT has been delivered to p and not yet acted on
TerminationPending(p) == proc[p].sig \cap {"term", "int"} # {}

\* C29: a running instance that acts on SIGTERM or SIGINT removes the PID
\* record and exits with code 0, and no watcher has been stopped when the
\* record is removed; wherever the handlers are installed, an exit with
\* code 0 is the handler's and leaves no PID record behind.
C29_SignalRemovesRecordThenExits ==
    [][\A p \in Pids :
          /\ (proc[p].pc = "running" /\ TerminationPending(p)
                /\ "kill" \notin proc[p].sig /\ proc'[p].pc # proc[p].pc)
             => /\ proc'[p].pc = "exited"
                /\ proc'[p].exit = 0
                /\ pidFile' = 0
                /\ \A w \in 1..Len(observers[p]) :
                      observers[p][w].st \notin {"stopped", "killed"}
          /\ (proc[p].pc \in {"installed", "constructed", "running"}
                /\ proc'[p].pc = "exited" /\ proc'[p].exit = 0)
             => TerminationPending(p) /\ pidFile' = 0]_vars

\* a running daemon that had written its record has exited with code 0 on
\* a signal and the record is gone
C29_Witness ==
    \E p \in Pids :
       /\ proc[p].pc = "exited"
       /\ proc[p].exit = 0
       /\ pidFile = 0
       /\ observers[p] # <<>>
       /\ \A w \in 1..Len(observers[p]) : observers[p][w].st = "killed"

\* the instance has loaded its rule store or plugin registry, or has set
\* up or started a watcher
LoadedAnything(p) ==
    \/ folders[p] # <<>>
    \/ plugins[p] # {}
    \/ observers[p] # <<>>
    \/ proc[p].pc \in {"constructed", "running"}

\* a watcher of the instance has taken an event or is inside a plugin
Dispatching(p) ==
    \E w \in 1..Len(observers[p]) :
       observers[p][w].pc # "idle" \/ observers[p][w].log # <<>>

\* C30: the instance writes its pid to the PID record at entry: with no
\* other writer about, an instance that is alive and has loaded its rules
\* or plugins, started a watcher or begun a dispatch finds the record
\* holding its own pid, and before the write nothing is loaded.
C30_PidWrittenAtEntry ==
    \A p \in Pids :
       Alive(p) =>
          /\ proc[p].pc = "boot" => ~LoadedAnything(p) /\ ~Dispatching(p)
          /\ (LoadedAnything(p) \/ Dispatching(p)) => pidFile = p

\* a plugin is processing a file while the record holds the instance's pid
C30_Witness ==
    \E p \in Pids : \E w \in 1..Len(observers[p]) :
       /\ Alive(p)
       /\ observers[p][w].pc = "process"
       /\ pidFile = p

\* C31: a background start ends with exit code 0 only if the pid it read
\* from the PID record at the re-probe is the pid of the child it launched
\* and that child is alive; otherwise it ends with a non-zero exit code.
C31_StartSuccessMeansOwnChild ==
    [][\A c \in CmdIds :
          (cmd[c].kind = "start" /\ ~cmd[c].fg
             /\ cmd[c].pc \in {"start_wait", "start_verify"}
             /\ cmd'[c].pc = "done")
          => IF cmd'[c].pid = cmd[c].child /\ Alive(cmd[c].child)
             THEN cmd'[c].exit = 0
             ELSE cmd'[c].exit # 0]_vars

\* no watcher of the instance has been started yet
NoWatcherStarted(p) ==
    \A w \in 1..Len(observers[p]) : observers[p][w].st = "new"

\* some watcher of the instance goes on with a dispatch in this step
DispatchStep(p) ==
    \E w \in 1..Len(observers[p]) :
       /\ Len(observers'[p]) = Len(observers[p])
       /\ observers'[p][w].log # observers[p][w].log

\* C32: the plugin registry and the rule store are written only during
\* start-up: a step that changes either happens while no watcher has been
\* started, and leaves none started; a step of a dispatch changes neither.
C32_StoresWrittenOnlyAtStartup ==
    [][\A p \in Pids :
          /\ (folders'[p] # folders[p] \/ plugins'[p] # plugins[p])
                => /\ NoWatcherStarted(p)
                   /\ \A w \in 1..Len(observers'[p]) :
                         observers'[p][w].st = "new"
          /\ DispatchStep(p)
                => folders'[p] = folders[p] /\ plugins'[p] = plugins[p]]_vars

\* a plugin has processed a file and the instance still has the rules and
\* the plugins it loaded at start-up
C32_Witness ==
    \E p \in Pids : \E w \in 1..Len(observers[p]) :
       /\ Len(observers[p][w].log) >= 2
       /\ observers[p][w].log[2].op = "process"
       /\ folders[p] = load_config(configExists, config)
       /\ folders[p] # <<>>
       /\ plugins[p] = InstalledPlugins

\* the watcher is inside process_file for an event it has taken
InProcessFile(o) == o.pc # "idle"

\* C33: dispatch is one event at a time per watcher: a watcher takes its
\* next event only when it is not inside process_file for an earlier one,
\* and a watcher inside a plugin does not hold back another watcher: an
\* idle started watcher with a pending event can always dispatch it.
C33_OneEventAtATimePerWatcher ==
    \A p \in Pids : \A w \in WatcherIds :
       w \in 1..Len(observers[p]) =>
          LET o == observers[p][w] IN
          /\ (InProcessFile(o) /\ o.st = "started")
                => ~ENABLED OnCreated(p, w)
          /\ (Alive(p) /\ o.st = "started" /\ ~InProcessFile(o)
                /\ o.queue # <<>>)
                => ENABLED OnCreated(p, w)

\* two watchers are inside a plugin at the same time, and the first has a
\* later event waiting behind the one it is processing
C33_Witness ==
    \E p \in Pids :
       /\ Len(observers[p]) = 2
       /\ observers[p][1].pc = "process"
       /\ observers[p][1].queue # <<>>
       /\ observers[p][2].pc = "process"

(***************************************************************************)
(* SpecOneFair: SpecOne in which a command that can take a step takes one. *)
(* Nothing is assumed of the daemon: it may leave a signal unanswered for  *)
(* ever.                                                                   *)
(***************************************************************************)
\* the steps of cmd_stop
StopStep(c) ==
    \/ StopRead(c)
    \/ StopProbe(c)
    \/ StopPurge(c)
    \/ StopSignal(c)
    \/ StopPoll(c)
    \/ StopRemove(c)
    \/ StopForce(c)
    \/ StopForceRemove(c)

SpecOneFair ==
    InitOne /\ [][NextOne]_vars /\ \A c \in CmdIds : WF_vars(StopStep(c))

\* C34: stop always terminates: it never polls more than 10 times, and a
\* stop that has begun ends, with the daemon stopped gracefully or the
\* forceful signal sent, whatever the daemon does with the graceful signal.
C34_StopTerminates ==
    /\ [](\A c \in CmdIds : cmd[c].i <= StopPolls)
    /\ \A c \in CmdIds :
          (cmd[c].kind = "stop" /\ cmd[c].pc # "done")
             ~> (cmd[c].kind = "stop" /\ cmd[c].pc = "done")

\* stop has returned after its 10 polls found the daemon alive each time
\* and the forceful signal was sent
C34_Witness ==
    \E c \in CmdIds :
       /\ cmd[c].kind = "stop"
       /\ cmd[c].pc = "done"
       /\ cmd[c].i = StopPolls
       /\ cmd[c].removed = "forced"
       /\ Len(cmd[c].sent) = 2

\* C35: an exception raised by plugin.can_handle does not leave
\* process_file and does not end the watcher thread: after a can_handle
\* call that raised, the watcher is still started and goes on dispatching.
C35_CanHandleFailureContained ==
    \A p \in Pids : \A w \in 1..Len(observers[p]) :
       LET o == observers[p][w] IN
       (\E k \in 1..Len(o.log) :
           o.log[k].op = "can_handle" /\ o.log[k].result = "raise")
       => (Alive(p) => o.st = "started") /\ o.crash # "can_handle"

\* the plugin.process invocations of all watchers of the instance so far
RECURSIVE ProcessCalls(_, _)
ProcessCalls(p, w) ==
    IF w = 0 THEN 0
    ELSE Count(observers[p][w].log, "process", "") + ProcessCalls(p, w - 1)

\* C36: each file creation leads to at most one plugin.process invocation,
\* whatever the rule set: an instance never has more process invocations
\* than files have been created, also when several watchers report the
\* same file.
C36_OneProcessPerCreation ==
    \A p \in Pids : ProcessCalls(p, Len(observers[p])) <= nCreated

\* the instance has written its PID record, is alive, and no termination
\* signal has been delivered to it
Recorded(p) ==
    /\ proc[p].pc \in {"written", "installed", "constructed", "running"}
    /\ proc[p].sig = {}

\* C37: under every interleaving of commands and signal handlers, while a
\* daemon instance is alive after writing its PID record and before
\* receiving a termination signal, the PID file holds that instance's pid.
C37_RecordOfLiveDaemonKept ==
    \A p \in Pids : Recorded(p) => pidFile = p

\* the pid belongs to a process that is not a daemon instance
Unrelated(pid) == pid \in Pids /\ proc[pid].pc \in {"other", "foreign"}

\* C38: stop signals only a daemon instance that wrote the PID record: when
\* the recorded pid now belongs to an unrelated process, stop sends it no
\* signal and start does not report AlreadyRunning.
C38_UnrelatedProcessLeftAlone ==
    [][\A c \in CmdIds :
          /\ Len(cmd'[c].sent) > Len(cmd[c].sent) => ~Unrelated(cmd[c].pid)
          /\ (cmd[c].pc = "start_probe" /\ cmd'[c].pc = "done")
                => ~Unrelated(cmd[c].pid)]_vars

\* C39: when the daemon body fails with an exception after the instance
\* has written its PID record, the step that ends the instance with exit
\* code 1 removes the record, and an instance that has exited with code 1
\* has left no record of itself behind.
C39_FailedDaemonLeavesNoRecord ==
    [][\A p \in Pids :
          (proc[p].pc \in {"installed", "constructed"}
             /\ proc'[p].pc = "exited" /\ proc'[p].exit = 1)
          => pidFile' = 0 /\ pidFile = p]_vars

\* the daemon failed after it had built its observers, exited with code 1,
\* and the PID file is gone
C39_Witness ==
    \E p \in Pids :
       /\ proc[p].pc = "exited"
       /\ proc[p].exit = 1
       /\ observers[p] # <<>>
       /\ pidFile = 0

\* the entry has path and plugin and its path is not a placeholder
RealEntry(e) ==
    {"path", "plugin"} \subseteq e.has /\ e.path # PlaceholderPath

\* C40: every entry that has both path and plugin and whose path does not
\* begin with the placeholder marker is loaded as a rule, also when it
\* carries a _comment key: the rules loaded are the rules of those entries.
C40_CommentedEntriesLoaded ==
    cfgResult.reader = "file_monitor" =>
        cfgResult.folders = RulesOf(SelectSeq(cfgEntries, RealEntry))

====
